---------------------------- MODULE Spec2Model ----------------------------
(***************************************************************************)
(* A model of the openapi-fastify router: the option merger and resolver   *)
(* of src/src/utils.ts and the route registry, reference resolver,         *)
(* specification assembler and validation hooks of src/src/router.ts.      *)
(***************************************************************************)
EXTENDS Naturals, Sequences, FiniteSets, TLC

VARIABLES
  options,    \* OpenApiRouter.options: the service-level options (router.ts:56)
  document,   \* OpenApiRouter.document: the static document (router.ts:56)
  routes,     \* OpenApiRouter.routes: the registry, in registration order (router.ts:50)
  calls,      \* the route() calls the start-up code has made, in order
  app,        \* the host: handlers registered and hooks installed by initialize()
  input,      \* the arguments of the utility call being examined
  last        \* what the latest call or request did

vars == <<options, document, routes, calls, app, input, last>>

-----------------------------------------------------------------------------
(* JavaScript values.  A value is a record with one field that names its   *)
(* kind; objects and arrays carry a map from property names to values.     *)

Undefined == [undef |-> TRUE]
Null == [null |-> TRUE]
Bool(b) == [bool |-> b]
Num(n) == [num |-> n]
Str(s) == [str |-> s]           \* s: the sequence of the string's characters
Fn(f) == [fn |-> f]             \* a function value, known by its name
Obj(m) == [obj |-> m]
Arr(m) == [arr |-> m]           \* m: a map from "0", "1", ... to the elements

EmptyMap == [k \in {} |-> Undefined]
EmptyObj == Obj(EmptyMap)

IsUndefined(v) == DOMAIN v = {"undef"}
IsNull(v) == DOMAIN v = {"null"}
IsBool(v) == DOMAIN v = {"bool"}
IsNum(v) == DOMAIN v = {"num"}
IsStr(v) == DOMAIN v = {"str"}
IsFn(v) == DOMAIN v = {"fn"}
IsObj(v) == DOMAIN v = {"obj"}
IsArr(v) == DOMAIN v = {"arr"}

\* typeof v === 'object'
TypeofObject(v) == IsObj(v) \/ IsArr(v) \/ IsNull(v)

\* the truthiness of v in a condition
Truthy(v) ==
  CASE IsUndefined(v) -> FALSE
    [] IsNull(v) -> FALSE
    [] IsBool(v) -> v.bool
    [] IsNum(v) -> v.num # 0
    [] IsStr(v) -> v.str # <<>>
    [] OTHER -> TRUE

\* the own enumerable properties of v ({...v}, for (key in v))
Map(v) == IF IsObj(v) THEN v.obj ELSE IF IsArr(v) THEN v.arr ELSE EmptyMap

\* v?.[key], and v[key] of a value that is not nullish
Prop(v, key) == IF key \in DOMAIN Map(v) THEN Map(v)[key] ELSE Undefined

\* v.path[1].path[2]...
RECURSIVE At(_, _)
At(v, path) == IF path = <<>> THEN v ELSE At(Prop(v, Head(path)), Tail(path))

\* a ?? b
Coalesce(a, b) == IF IsUndefined(a) \/ IsNull(a) THEN b ELSE a

\* a || b
OrElse(a, b) == IF Truthy(a) THEN a ELSE b

-----------------------------------------------------------------------------
(* utils.ts                                                                *)

OPERATOR_NAMES == {"get", "post", "put", "delete", "patch", "options", "head"}

\* deepMerge(base, value), utils.ts:17-33
RECURSIVE deepMerge(_, _)
deepMerge(base, value) ==
  LET bm == Map(base)
      vm == Map(value)
      recurse(k) == /\ Truthy(Prop(base, k)) /\ Truthy(vm[k])
                    /\ TypeofObject(Prop(base, k)) /\ TypeofObject(vm[k])
      assigned == {k \in DOMAIN vm : recurse(k) \/ ~IsUndefined(vm[k])}
      rm == [k \in DOMAIN bm \cup assigned |->
               IF k \in assigned
                 THEN IF recurse(k)
                        THEN IF IsArr(vm[k]) THEN vm[k]
                             ELSE deepMerge(Prop(base, k), vm[k])
                        ELSE vm[k]
                 ELSE bm[k]]
  IN IF IsArr(base) THEN Arr(rm) ELSE Obj(rm)

\* AUTO_VALIDATION_DEFAULTS, utils.ts:152-160
AUTO_VALIDATION_DEFAULTS ==
  Obj([config |-> Undefined,
       request |-> Obj([validate |-> Bool(FALSE)]),
       response |-> Obj([validate |-> Bool(FALSE)])])

\* a helper that does not wrap a boolean
getReqResConfigUnwrapped(config) ==
  OrElse(config, Prop(AUTO_VALIDATION_DEFAULTS, "request"))

\* getReqResConfig, the helper inside getAutoValidateConfig, utils.ts:185
getReqResConfig(config) ==
  OrElse(IF IsBool(config) THEN Obj([validate |-> config]) ELSE config,
         Prop(AUTO_VALIDATION_DEFAULTS, "request"))

\* getAutoValidateConfig(autoValidate = false), utils.ts:173-197
getAutoValidateConfig(autoValidateArg) ==
  LET given == IF IsUndefined(autoValidateArg) THEN Bool(FALSE) ELSE autoValidateArg
      autoValidate == IF ~Truthy(given) THEN Bool(FALSE) ELSE given
  IN IF IsBool(autoValidate)
       THEN Obj([config |-> Undefined,
                 request |-> Obj([validate |-> autoValidate]),
                 response |-> Obj([validate |-> autoValidate])])
     ELSE IF TypeofObject(autoValidate)
       THEN Obj([config |-> Prop(autoValidate, "config"),
                 request |-> getReqResConfig(Prop(autoValidate, "request")),
                 response |-> getReqResConfig(Prop(autoValidate, "response"))])
     ELSE Obj([config |-> Undefined,
               request |-> Prop(AUTO_VALIDATION_DEFAULTS, "request"),
               response |-> Prop(AUTO_VALIDATION_DEFAULTS, "response")])

\* a destructured parameter with the default {}: `x = {}`
OrEmpty(v) == IF IsUndefined(v) THEN EmptyObj ELSE v

\* getOperationOptions({operatorOptions, routeOptions, routerOptions}), utils.ts:216-219
getOperationOptions(operatorOptions, routeOptions, routerOptions) ==
  LET merge1 == deepMerge(OrEmpty(routerOptions), OrEmpty(routeOptions))
  IN deepMerge(merge1, OrEmpty(operatorOptions))


-----------------------------------------------------------------------------
(* Strings are sequences of one-character strings.                         *)

Whitespace == {" "}

\* s.split(sep), for a separator of one character
RECURSIVE split(_, _)
split(s, sep) ==
  IF \A i \in 1..Len(s) : s[i] # sep
    THEN <<s>>
    ELSE LET i == CHOOSE i \in 1..Len(s) :
                    s[i] = sep /\ \A j \in 1..(i - 1) : s[j] # sep
         IN <<SubSeq(s, 1, i - 1)>> \o split(SubSeq(s, i + 1, Len(s)), sep)

\* s.trim()
RECURSIVE trim(_)
trim(s) ==
  IF s = <<>> THEN s
  ELSE IF s[1] \in Whitespace THEN trim(Tail(s))
  ELSE IF s[Len(s)] \in Whitespace THEN trim(SubSeq(s, 1, Len(s) - 1))
  ELSE s

\* segments.join(sep)
RECURSIVE join(_, _)
join(segments, sep) ==
  IF segments = <<>> THEN <<>>
  ELSE IF Len(segments) = 1 THEN segments[1]
  ELSE segments[1] \o <<sep>> \o join(Tail(segments), sep)

\* segments.map(p => p.trim()).filter(Boolean)
RECURSIVE trimAndFilter(_)
trimAndFilter(segments) ==
  IF segments = <<>> THEN <<>>
  ELSE LET p == trim(segments[1])
       IN (IF p = <<>> THEN <<>> ELSE <<p>>) \o trimAndFilter(Tail(segments))

\* segments.filter(Boolean) without the trim
RECURSIVE filterOnly(_)
filterOnly(segments) ==
  IF segments = <<>> THEN <<>>
  ELSE (IF segments[1] = <<>> THEN <<>> ELSE <<segments[1]>>) \o filterOnly(Tail(segments))

\* segments.map(p => p.trim()) without the filter
RECURSIVE trimOnly(_)
trimOnly(segments) ==
  IF segments = <<>> THEN <<>>
  ELSE <<trim(segments[1])>> \o trimOnly(Tail(segments))

\* a composition that does not trim its segments
getOperationPathUntrimmed(path, opts) ==
  LET prefix == Prop(opts, "prefix")
      prefixSegments == IF IsStr(prefix) THEN split(prefix.str, "/") ELSE <<>>
  IN <<"/">> \o join(filterOnly(prefixSegments \o split(path, "/")), "/")

\* a composition that keeps its empty segments
getOperationPathUnfiltered(path, opts) ==
  LET prefix == Prop(opts, "prefix")
      prefixSegments == IF IsStr(prefix) THEN split(prefix.str, "/") ELSE <<>>
  IN <<"/">> \o join(trimOnly(prefixSegments \o split(path, "/")), "/")

\* getOperationPath(path, options), utils.ts:211-214
getOperationPath(path, opts) ==
  LET prefix == Prop(opts, "prefix")
      prefixSegments == IF IsStr(prefix) THEN split(prefix.str, "/") ELSE <<>>
      pathArray == trimAndFilter(prefixSegments \o split(path, "/"))
  IN <<"/">> \o join(pathArray, "/")

Letters ==
  {"a", "b", "c", "d", "e", "f", "g", "h", "i", "j", "k", "l", "m",
   "n", "o", "p", "q", "r", "s", "t", "u", "v", "w", "x", "y", "z",
   "A", "B", "C", "D", "E", "F", "G", "H", "I", "J", "K", "L", "M",
   "N", "O", "P", "Q", "R", "S", "T", "U", "V", "W", "X", "Y", "Z"}
Digits == {"0", "1", "2", "3", "4", "5", "6", "7", "8", "9"}
NameStart == Letters \cup {"_"}             \* [a-zA-Z_]
NameChar == Letters \cup Digits \cup {"_"}  \* [a-zA-Z0-9_]

\* path.replace(/:([a-zA-Z_][a-zA-Z0-9_]*)/g, "{$1}") from position i on
RECURSIVE replaceFrom(_, _)
replaceFrom(s, i) ==
  IF i > Len(s) THEN <<>>
  ELSE IF s[i] = ":" /\ i < Len(s) /\ s[i + 1] \in NameStart
    THEN LET stop == CHOOSE j \in (i + 1)..Len(s) :
                       /\ \A k \in (i + 1)..j : s[k] \in NameChar
                       /\ (j = Len(s) \/ s[j + 1] \notin NameChar)
         IN <<"{">> \o SubSeq(s, i + 1, stop) \o <<"}">> \o replaceFrom(s, stop + 1)
  ELSE <<s[i]>> \o replaceFrom(s, i + 1)

\* a replacement whose parameter names may start with a digit
RECURSIVE replaceAnyNameFrom(_, _)
replaceAnyNameFrom(s, i) ==
  IF i > Len(s) THEN <<>>
  ELSE IF s[i] = ":" /\ i < Len(s) /\ s[i + 1] \in NameChar
    THEN LET stop == CHOOSE j \in (i + 1)..Len(s) :
                       /\ \A k \in (i + 1)..j : s[k] \in NameChar
                       /\ (j = Len(s) \/ s[j + 1] \notin NameChar)
         IN <<"{">> \o SubSeq(s, i + 1, stop) \o <<"}">> \o replaceAnyNameFrom(s, stop + 1)
  ELSE <<s[i]>> \o replaceAnyNameFrom(s, i + 1)

replacePathAnyName(path) == replaceAnyNameFrom(path, 1)

\* replacePathWithOpenApiParams(path), utils.ts:150
replacePathWithOpenApiParams(path) == replaceFrom(path, 1)

-----------------------------------------------------------------------------
(* router.ts: option resolution of describeOperation                      *)

\* the options describeOperation returns, router.ts:374-376:
\* {...options, autoValidate: getAutoValidateConfig(options?.autoValidate)}
resolveOptions(operatorOptions, routeOptions, routerOptions) ==
  LET opts == getOperationOptions(operatorOptions, routeOptions, routerOptions)
      autoValidate == getAutoValidateConfig(Prop(opts, "autoValidate"))
  IN Obj([k \in DOMAIN Map(opts) \cup {"autoValidate"} |->
            IF k = "autoValidate" THEN autoValidate ELSE Map(opts)[k]])

\* getDefaultOperationOptions({operatorOptions, routeOptions, routerOptions}),
\* utils.ts:221-235
getDefaultOperationOptions(operatorOptions, routeOptions, routerOptions) ==
  LET operatorAutoValidate == getAutoValidateConfig(Prop(OrEmpty(operatorOptions), "autoValidate"))
      routeAutoValidate == getAutoValidateConfig(Prop(OrEmpty(routeOptions), "autoValidate"))
      routerAutoValidate == getAutoValidateConfig(Prop(OrEmpty(routerOptions), "autoValidate"))
      validateOf(side) ==
        Coalesce(At(operatorAutoValidate, <<side, "validate">>),
                 Coalesce(At(routeAutoValidate, <<side, "validate">>),
                          Coalesce(At(routerAutoValidate, <<side, "validate">>),
                                   Bool(FALSE))))
  IN Obj([autoValidate |->
            Obj([request |-> Obj([validate |-> validateOf("request")]),
                 response |-> Obj([validate |-> validateOf("response")])])])

-----------------------------------------------------------------------------
(* router.ts: the registry, the reference resolver and the assembler       *)

\* {...a, ...b} of two method records
spread(a, b) ==
  [m \in DOMAIN a \cup DOMAIN b |-> IF m \in DOMAIN b THEN b[m] ELSE a[m]]

\* this.routes.find(r => r.path === path) as an index, 0 when there is none
findRoute(rs, path) ==
  IF \E i \in 1..Len(rs) : rs[i].path = path
    THEN CHOOSE i \in 1..Len(rs) :
           rs[i].path = path /\ \A j \in 1..(i - 1) : rs[j].path # path
    ELSE 0

\* route() whose merge lets the methods already registered win
routeKeepOld(rs, path, methods, opts, routerOpts) ==
  LET newPath == getOperationPath(path, getOperationOptions(Undefined, opts, routerOpts))
      i == findRoute(rs, newPath)
  IN IF i # 0
       THEN [rs EXCEPT ![i] = [path |-> rs[i].path,
                               methods |-> spread(methods, rs[i].methods),
                               options |-> opts]]
       ELSE Append(rs, [path |-> newPath, methods |-> methods, options |-> opts])

\* route() that registers a path given again as a new Route at the end
routeMovedToTheEnd(rs, path, methods, opts, routerOpts) ==
  LET newPath == getOperationPath(path, getOperationOptions(Undefined, opts, routerOpts))
      i == findRoute(rs, newPath)
  IN IF i # 0
       THEN Append(SubSeq(rs, 1, i - 1) \o SubSeq(rs, i + 1, Len(rs)),
                   [path |-> rs[i].path,
                    methods |-> spread(rs[i].methods, methods),
                    options |-> opts])
       ELSE Append(rs, [path |-> newPath, methods |-> methods, options |-> opts])

\* route(path, methods, options): this.routes afterwards, router.ts:98-115
route(rs, path, methods, opts, routerOpts) ==
  LET routerOptions == getOperationOptions(Undefined, opts, routerOpts)
      newPath == getOperationPath(path, routerOptions)
      i == findRoute(rs, newPath)
  IN IF i # 0
       THEN [rs EXCEPT ![i] = [path |-> rs[i].path,
                               methods |-> spread(rs[i].methods, methods),
                               options |-> opts]]
       ELSE Append(rs, [path |-> newPath, methods |-> methods, options |-> opts])

\* op(specification, handler, options), router.ts:150-156
op(specification, handler, opts) ==
  [specification |-> specification, handler |-> handler, options |-> opts]

\* ref.replace('#/', ''): the first "#/" removed
RECURSIVE removeHashSlash(_)
removeHashSlash(s) ==
  IF Len(s) < 2 THEN s
  ELSE IF s[1] = "#" /\ s[2] = "/" THEN SubSeq(s, 3, Len(s))
  ELSE <<s[1]>> \o removeHashSlash(Tail(s))

\* a property name from a string of one piece (names are written as one piece)
Key(segment) == IF Len(segment) = 1 THEN segment[1] ELSE "?"

\* ref(ref, {useRef} = {useRef: false}), router.ts:173-184:
\* threw: the lookup read a property of undefined
ref(doc, refString, refOptions) ==
  LET segments == split(removeHashSlash(refString), "/")
      useRef == Prop(IF IsUndefined(refOptions) THEN Obj([useRef |-> Bool(FALSE)])
                     ELSE refOptions, "useRef")
      components == Prop(doc, "components")
      schemas == Prop(components, "schemas")
      component == IF Len(segments) >= 3 THEN Prop(schemas, Key(segments[3]))
                   ELSE Undefined
  IN IF IsUndefined(components) \/ IsUndefined(schemas)
       THEN [threw |-> TRUE, result |-> Undefined]
     ELSE IF Truthy(useRef)
       THEN [threw |-> FALSE, result |-> Obj([r \in {"$ref"} |-> Str(refString)])]
     ELSE [threw |-> FALSE, result |-> Obj(Map(component))]

\* a function the user configured that throws when it is called
Throws(fn) == fn = Fn("failing")

\* a function the user configured, applied to one argument
Call(fn, arg) ==
  IF fn = Fn("tagApi")
    THEN Obj([k \in DOMAIN Map(arg) \cup {"tags"} |->
                IF k = "tags" THEN Arr([i \in {"0"} |-> Str(<<"api">>)]) ELSE Map(arg)[k]])
  ELSE IF fn = Fn("listErrors") THEN Obj([details |-> arg])
  ELSE Undefined

\* the method entries the getter writes for one Route, router.ts:335-341
RECURSIVE writeMethods(_, _, _, _)
writeMethods(item, r, todo, routerOpts) ==
  IF todo = {} THEN item
  ELSE LET m == CHOOSE m \in todo : TRUE
           opts == getOperationOptions(r.methods[m].options, r.options, routerOpts)
           originalSpec == r.methods[m].specification
           specification ==
             IF Truthy(Prop(routerOpts, "specModifier"))
               THEN Call(Prop(routerOpts, "specModifier"), originalSpec)
               ELSE originalSpec
           next == IF Prop(opts, "excludeFromSpecification") = Bool(TRUE) THEN item
                   ELSE Obj([k \in DOMAIN Map(item) \cup {m} |->
                               IF k = m THEN specification ELSE Map(item)[k]])
       IN writeMethods(next, r, todo \ {m}, routerOpts)

\* the getter's loop over this.routes from index i on, router.ts:331-343
RECURSIVE writeRoutes(_, _, _, _)
writeRoutes(paths, rs, i, routerOpts) ==
  IF i > Len(rs) THEN paths
  ELSE IF Prop(rs[i].options, "excludeFromSpecification") = Bool(TRUE)
    THEN writeRoutes(paths, rs, i + 1, routerOpts)
  ELSE LET path == replacePathWithOpenApiParams(rs[i].path)
           item == writeMethods(OrElse(Prop(paths, path), EmptyObj), rs[i],
                                DOMAIN rs[i].methods, routerOpts)
           next == IF DOMAIN Map(item) = {}
                     THEN Obj([k \in DOMAIN Map(paths) \ {path} |-> Map(paths)[k]])
                     ELSE Obj([k \in DOMAIN Map(paths) \cup {path} |->
                                 IF k = path THEN item ELSE Map(paths)[k]])
       IN writeRoutes(next, rs, i + 1, routerOpts)

\* get specification(), router.ts:328-345: the document returned, and
\* this.document afterwards (newSpec shares the paths object of a document
\* that has one)
specification(doc, rs, routerOpts) ==
  LET own == Truthy(Prop(doc, "paths"))
      paths == writeRoutes(IF own THEN Prop(doc, "paths") ELSE EmptyObj, rs, 1, routerOpts)
      newSpec == Obj([k \in DOMAIN Map(doc) \cup {"paths"} |->
                        IF k = "paths" THEN paths ELSE Map(doc)[k]])
  IN [result |-> newSpec, document |-> IF own THEN newSpec ELSE doc]

\* printRoutes(), router.ts:346-357: the title line, and for each Route in
\* the order of this.routes its path and a line per method; reading the title
\* reads the specification getter, so this.document afterwards is the getter's
printRoutes(doc, rs, routerOpts) ==
  LET got == specification(doc, rs, routerOpts)
  IN [title |-> Coalesce(At(got.result, <<"info", "title">>), Str(<<"API Routes">>)),
      routes |-> [i \in 1..Len(rs) |->
                    [path |-> rs[i].path,
                     methods |-> {[method |-> m,
                                   summary |-> Coalesce(Prop(rs[i].methods[m].specification,
                                                             "summary"), Str(<<>>))] :
                                    m \in DOMAIN rs[i].methods}]],
      document |-> got.document]

-----------------------------------------------------------------------------
(* Option values the checks draw from.                                     *)

\* an errorResponse with a static payload
ErrorResponse(status, text) ==
  Obj([status |-> Num(status), payload |-> Obj([error |-> Str(<<text>>)])])

\* an errorResponse whose payload is a function of the error list
ErrorResponseFn(status, name) ==
  Obj([status |-> Num(status), payload |-> Fn(name)])

\* the options one level (service, route or operator) may give
LevelOptions ==
  { Undefined,
    EmptyObj,
    Obj([autoValidate |-> Bool(TRUE)]),
    Obj([autoValidate |-> Bool(FALSE)]),
    Obj([autoValidate |-> Obj([request |-> Bool(TRUE)])]),
    Obj([autoValidate |-> Obj([request |-> Obj([validate |-> Bool(TRUE)])])]),
    Obj([autoValidate |->
           Obj([request |-> Obj([errorResponse |-> ErrorResponse(422, "custom")])])]),
    Obj([autoValidate |->
           Obj([request |-> Obj([validate |-> Bool(FALSE),
                                 errorResponse |-> ErrorResponse(409, "conflict")]),
                response |-> Obj([validate |-> Bool(TRUE)])])]),
    Obj([autoValidate |->
           Obj([response |-> Obj([validate |-> Bool(FALSE),
                                  errorResponse |-> ErrorResponse(502, "bad")])])]),
    Obj([excludeFromSpecification |-> Bool(TRUE)]),
    Obj([excludeFromSpecification |-> Bool(FALSE),
         autoValidate |-> Obj([response |-> Bool(TRUE)])]) }

\* the host before initialize()
NoApp ==
  [initialized |-> FALSE, handlers |-> {},
   preValidation |-> FALSE, preSerialization |-> FALSE]

-----------------------------------------------------------------------------
(* Documents, operations and route() calls the checks draw from.           *)

ApplicationJson == "application/json"

\* a schema that requires the properties named
Schema(required) ==
  Obj([type |-> Str(<<"object">>),
       properties |-> Obj([id |-> Obj([type |-> Str(<<"number">>)]),
                           name |-> Obj([type |-> Str(<<"string">>)])]),
       required |-> required])

NoneRequired == Arr(EmptyMap)
IdRequired == Arr([i \in {"0"} |-> Str(<<"id">>)])
IdAndNameRequired ==
  Arr([i \in {"0", "1"} |-> IF i = "0" THEN Str(<<"id">>) ELSE Str(<<"name">>)])

UserSchema == Schema(IdAndNameRequired)

UserCreated ==
  Obj([description |-> Str(<<"User created">>),
       content |-> Obj([c \in {ApplicationJson} |-> Obj([schema |-> Schema(IdRequired)])])])

Info == Obj([title |-> Str(<<"Test API">>), version |-> Str(<<"1.0.0">>)])

\* an operation specification with a request body and a 200 response, both
\* described by a schema
SpecWithSchemas(summary) ==
  Obj([summary |-> Str(<<summary>>),
       requestBody |->
         Obj([required |-> Bool(TRUE),
              content |-> Obj([c \in {ApplicationJson} |->
                                 Obj([schema |-> Schema(IdRequired)])])]),
       responses |->
         Obj([code \in {"200"} |->
                Obj([description |-> Str(<<"OK">>),
                     content |-> Obj([c \in {ApplicationJson} |->
                                        Obj([schema |-> Schema(IdRequired)])])])])])

\* an operation specification without any schema
SpecPlain(summary) ==
  Obj([summary |-> Str(<<summary>>),
       responses |-> Obj([code \in {"200"} |-> Obj([description |-> Str(<<"OK">>)])])])

\* the static documents a router is constructed with
DocFull ==
  Obj([openapi |-> Str(<<"3.0.0">>), info |-> Info,
       components |-> Obj([schemas |-> Obj([User |-> UserSchema]),
                           responses |-> Obj([UserCreated |-> UserCreated])])])
DocBare == Obj([openapi |-> Str(<<"3.0.0">>), info |-> Info])
DocNoSchemas ==
  Obj([openapi |-> Str(<<"3.0.0">>), info |-> Info,
       components |-> Obj([responses |-> Obj([UserCreated |-> UserCreated])])])
DocWithPaths ==
  Obj([openapi |-> Str(<<"3.0.0">>), info |-> Info,
       components |-> Obj([schemas |-> Obj([User |-> UserSchema])]),
       paths |-> Obj([p \in {<<"/", "a">>} |-> Obj([head |-> SpecPlain("static")])])])

\* the service-level validation settings
ServiceValidation ==
  Obj([request |-> Obj([validate |-> Bool(TRUE),
                        errorResponse |-> ErrorResponse(400, "service")]),
       response |-> Obj([validate |-> Bool(TRUE),
                         errorResponse |-> ErrorResponseFn(500, "listErrors")])])

\* (options, document) pairs a router is constructed with
Constructions ==
  { [options |-> EmptyObj, document |-> DocFull],
    [options |-> Obj([autoValidate |-> Bool(TRUE)]), document |-> DocBare],
    [options |-> Obj([prefix |-> Str(<<"/", "p">>), specModifier |-> Fn("tagApi")]),
     document |-> DocNoSchemas],
    [options |-> Obj([excludeFromSpecification |-> Bool(TRUE)]), document |-> DocFull],
    [options |-> Obj([autoValidate |-> ServiceValidation]), document |-> DocWithPaths] }

\* operations
OpPlain == op(SpecWithSchemas("plain"), "hPlain", Undefined)
OpShown == op(SpecPlain("shown"), "hShown", Obj([excludeFromSpecification |-> Bool(FALSE)]))
OpHidden == op(SpecPlain("hidden"), "hHidden", Obj([excludeFromSpecification |-> Bool(TRUE)]))
OpChecked ==
  op(SpecWithSchemas("checked"), "hChecked",
     Obj([autoValidate |->
            Obj([request |-> Obj([validate |-> Bool(TRUE),
                                  errorResponse |-> ErrorResponse(422, "operator")]),
                 response |-> Obj([validate |-> Bool(FALSE)])])]))
OpUnchecked ==
  op(SpecWithSchemas("unchecked"), "hUnchecked", Obj([autoValidate |-> Bool(FALSE)]))

PathA == <<"/", "a">>
PathA2 == <<"a", "/", " ">>
PathB == <<"/", "b", "/", ":", "i", "d">>
PathPB == <<"p", "/", "b", "/", ":", "i", "d">>

RouteValidation ==
  Obj([autoValidate |->
         Obj([request |-> Obj([validate |-> Bool(TRUE),
                               errorResponse |-> ErrorResponse(409, "route")]),
              response |-> Obj([validate |-> Bool(TRUE)])])])

\* the route(path, methods, options) calls of the start-up code
RouteCalls ==
  { [path |-> PathA, methods |-> [m \in {"get"} |-> OpPlain], options |-> Undefined],
    [path |-> PathA2, methods |-> [m \in {"post"} |-> OpShown], options |-> Undefined],
    [path |-> PathA,
     methods |-> [m \in {"get", "post"} |-> IF m = "get" THEN OpHidden ELSE OpPlain],
     options |-> Undefined],
    [path |-> PathA, methods |-> [m \in {"get"} |-> OpShown],
     options |-> Obj([excludeFromSpecification |-> Bool(TRUE)])],
    [path |-> PathB, methods |-> [m \in {"get"} |-> OpPlain],
     options |-> Obj([prefix |-> Str(<<"/", "p">>)])],
    [path |-> PathPB, methods |-> [m \in {"post"} |-> OpHidden], options |-> Undefined],
    [path |-> PathB, methods |-> [m \in {"get"} |-> OpHidden], options |-> Undefined],
    [path |-> PathB, methods |-> [m \in {"post"} |-> OpChecked], options |-> Undefined],
    [path |-> PathA, methods |-> [m \in {"post"} |-> OpUnchecked],
     options |-> RouteValidation],
    [path |-> PathA2, methods |-> [m \in {"post"} |-> OpPlain],
     options |-> RouteValidation] }

\* the ref(ref, options) calls of the start-up code
RefString(section, name) == <<"#", "/", "components", "/", section, "/", name>>

RefCalls ==
  { [ref |-> RefString("schemas", "User"), options |-> Undefined],
    [ref |-> RefString("schemas", "User"),
     options |-> Obj([override |-> Obj([required |-> IdRequired])])],
    [ref |-> RefString("schemas", "User"), options |-> Obj([useRef |-> Bool(TRUE)])],
    [ref |-> RefString("schemas", "Missing"), options |-> Undefined],
    [ref |-> RefString("responses", "UserCreated"), options |-> Undefined],
    [ref |-> RefString("responses", "User"), options |-> Undefined] }

MaxRouteCalls == 2

-----------------------------------------------------------------------------
(* router.ts and utils.ts: initialize() and the validation hooks           *)

\* v is null or undefined: reading a property of it throws a TypeError
Nullish(v) == IsUndefined(v) \/ IsNull(v)

\* the property name a value used as a key stands for
PropertyKey(v) ==
  IF IsStr(v) THEN Key(v.str)
  ELSE IF IsObj(v) THEN "[object Object]"
  ELSE "undefined"

\* the outcomes of a call that may throw
Returned(v) == [threw |-> FALSE, result |-> v]
Threw == [threw |-> TRUE, result |-> Undefined]

\* getRequestBodySchema(contentType, specification), utils.ts:243-249
getRequestBodySchema(contentType, spec) ==
  IF Nullish(spec) THEN Threw
  ELSE LET requestBody == Prop(spec, "requestBody")
           content == Prop(requestBody, "content")
       IN IF ~Truthy(requestBody) THEN Returned(Undefined)
          ELSE IF ~Truthy(content) THEN Returned(Undefined)
          ELSE Returned(Prop(Prop(content, PropertyKey(contentType)), "schema"))

\* a schema lookup that takes its first argument as the operation's
\* specification and its second as the reply
getResponseSchemaOfOperation(contentType, spec, response) ==
  IF Nullish(contentType) THEN Threw
  ELSE LET responses == Prop(contentType, "responses")
       IN IF ~Truthy(responses) THEN Returned(Undefined)
          ELSE IF Nullish(spec) \/ ~IsNum(Prop(spec, "statusCode")) THEN Threw
          ELSE LET responseSchemaContent ==
                     Prop(responses, ToString(Prop(spec, "statusCode").num))
               IN Returned(Prop(Prop(Prop(responseSchemaContent, "content"),
                                     ApplicationJson), "schema"))

\* getResponseSchema(contentType, specification, response), utils.ts:251-257
getResponseSchema(contentType, spec, response) ==
  IF Nullish(spec) THEN Threw
  ELSE LET responses == Prop(spec, "responses")
       IN IF ~Truthy(responses) THEN Returned(Undefined)
          ELSE IF Nullish(response) \/ ~IsNum(Prop(response, "statusCode")) THEN Threw
          ELSE LET responseSchemaContent ==
                     Prop(responses, ToString(Prop(response, "statusCode").num))
               IN Returned(Prop(Prop(Prop(responseSchemaContent, "content"),
                                     ApplicationJson), "schema"))

\* the array [s[1], ..., s[n]]
ArrOf(s) ==
  Arr([k \in {ToString(i - 1) : i \in 1..Len(s)} |->
         s[CHOOSE i \in 1..Len(s) : ToString(i - 1) = k]])

\* the elements of an array, in order
SeqOf(a) == [i \in 1..Cardinality(DOMAIN Map(a)) |-> Map(a)[ToString(i - 1)]]

\* `allErrors` of the options the constructor gives the schema engine,
\* router.ts:57-59
allErrors(routerOpts) ==
  LET autoValidate == Prop(routerOpts, "autoValidate")
  IN IF TypeofObject(autoValidate)
       THEN Truthy(Prop(Prop(autoValidate, "config"), "allErrors"))
       ELSE TRUE

\* the names the schema engine accepts for the `type` of a schema
SimpleTypes ==
  { <<"object">>, <<"array">>, <<"string">>, <<"number">>, <<"integer">>,
    <<"boolean">>, <<"null">> }

\* this.ajv.compile(schema) returns a validator; it throws for a value that is
\* no schema and for a schema whose `type` is none of the engine's
compiles(schema) ==
  \/ IsBool(schema)
  \/ /\ IsObj(schema)
     /\ \/ IsUndefined(Prop(schema, "type"))
        \/ /\ IsStr(Prop(schema, "type"))
           /\ Prop(schema, "type").str \in SimpleTypes

\* the engine's error for a required property that is missing
MissingProperty(name) ==
  Obj([keyword |-> Str(<<"required">>), params |-> Obj([missingProperty |-> name])])

\* the engine's error for a payload that is no object
NotAnObject == Obj([keyword |-> Str(<<"type">>), params |-> Obj([type |-> Str(<<"object">>)])])

\* the required names, in order, that are no property of the payload
RECURSIVE missingOf(_, _)
missingOf(names, payload) ==
  IF names = <<>> THEN <<>>
  ELSE (IF Key(Head(names).str) \in DOMAIN Map(payload) THEN <<>> ELSE <<Head(names)>>)
       \o missingOf(Tail(names), payload)

\* validate(payload) and validate.errors of a compiled schema: an object
\* schema is met by an object that has every required property
validate(schema, payload, all) ==
  LET missing == missingOf(SeqOf(Prop(schema, "required")), payload)
      found == IF ~IsObj(payload) THEN <<NotAnObject>>
               ELSE [i \in 1..Len(missing) |-> MissingProperty(missing[i])]
      errors == IF all \/ found = <<>> THEN found ELSE <<Head(found)>>
  IN IF IsBool(schema)
       THEN [isValid |-> schema.bool,
             errors |-> IF schema.bool THEN Null
                        ELSE ArrOf(<<Obj([keyword |-> Str(<<"false schema">>)])>>)]
       ELSE [isValid |-> errors = <<>>,
             errors |-> IF errors = <<>> THEN Null ELSE ArrOf(errors)]

\* what a hook does with a request: lets it pass, sends a response, or throws
Pass == [kind |-> "pass"]
Send(status, payload) == [kind |-> "send", status |-> status, payload |-> payload]
Throw == [kind |-> "throw"]

\* the error response a hook builds, router.ts:398-405 and 422-429; side is
\* "request" or "response".  AUTO_VALIDATION_DEFAULTS[side] has no
\* errorResponse, so reading the default status or payload throws.
errorResponse(side, routerOpts, errors) ==
  LET autoValidate == getAutoValidateConfig(Prop(routerOpts, "autoValidate"))
      configured == Prop(Prop(autoValidate, side), "errorResponse")
      defaults == Prop(Prop(AUTO_VALIDATION_DEFAULTS, side), "errorResponse")
      status == Prop(configured, "status")
      payload == Prop(configured, "payload")
  IN IF (~Truthy(status) \/ ~Truthy(payload)) /\ Nullish(defaults) THEN Throw
     ELSE LET sent == OrElse(payload,
                             Obj([k \in DOMAIN Map(Prop(defaults, "payload")) \cup {"errors"} |->
                                    IF k = "errors" THEN errors
                                    ELSE Map(Prop(defaults, "payload"))[k]]))
          IN IF IsFn(sent) /\ Throws(sent) THEN Throw
             ELSE Send(OrElse(status, Prop(defaults, "status")),
                       IF IsFn(sent) THEN Call(sent, OrElse(errors, Arr(EmptyMap)))
                       ELSE sent)

\* describeOperation(request), router.ts:361-377; a request is a record of
\* its method in lower case, the url of the route it matched, and its body
describeOperation(rs, routerOpts, request) ==
  LET i == findRoute(rs, request.url)
      found == i # 0 /\ request.method \in DOMAIN rs[i].methods
      operation == IF found THEN rs[i].methods[request.method] ELSE Undefined
  IN [method |-> request.method,
      path |-> request.url,
      found |-> found,
      operation |-> operation,
      options |-> resolveOptions(IF found THEN operation.options ELSE Undefined,
                                 IF i # 0 THEN rs[i].options ELSE Undefined,
                                 routerOpts)]

\* preValidation without its try block: what the body throws escapes
preValidationUncaught(rs, routerOpts, request) ==
  LET described == describeOperation(rs, routerOpts, request)
      payload == request.body
      reqBodySpec == getRequestBodySchema(described.operation.specification, Undefined)
      checked == validate(reqBodySpec.result, payload, allErrors(routerOpts))
      response == errorResponse("request", routerOpts, checked.errors)
  IN IF described.method = "get" THEN Pass
     ELSE IF described.path = <<>> THEN Pass
     ELSE IF ~Truthy(payload) THEN Pass
     ELSE IF ~described.found THEN Pass
     ELSE IF At(described.options, <<"autoValidate", "request", "validate">>) # Bool(TRUE)
       THEN Pass
     ELSE IF reqBodySpec.threw THEN Throw
     ELSE IF ~Truthy(reqBodySpec.result) THEN Pass
     ELSE IF ~compiles(reqBodySpec.result) THEN Throw
     ELSE IF checked.isValid THEN Pass
     ELSE response

\* preValidation that looks the schema up by content type and validates
\* whatever the operation's resolved request.validate is
preValidationOfEveryOperation(rs, routerOpts, request) ==
  LET described == describeOperation(rs, routerOpts, request)
      payload == request.body
      reqBodySpec == getRequestBodySchema(Str(<<ApplicationJson>>),
                                          described.operation.specification)
      checked == validate(reqBodySpec.result, payload, allErrors(routerOpts))
      response == errorResponse("request", routerOpts, checked.errors)
  IN IF described.method = "get" THEN Pass
     ELSE IF described.path = <<>> THEN Pass
     ELSE IF ~Truthy(payload) THEN Pass
     ELSE IF ~described.found THEN Pass
     ELSE IF reqBodySpec.threw THEN Pass
     ELSE IF ~Truthy(reqBodySpec.result) THEN Pass
     ELSE IF ~compiles(reqBodySpec.result) THEN Pass
     ELSE IF checked.isValid THEN Pass
     ELSE IF response.kind = "throw" THEN Pass
     ELSE response

\* hooks.preValidation(request, reply), router.ts:381-410; whatever is thrown
\* inside its try block is caught and the request passes
preValidation(rs, routerOpts, request) ==
  LET described == describeOperation(rs, routerOpts, request)
      payload == request.body
      reqBodySpec == getRequestBodySchema(described.operation.specification, Undefined)
      checked == validate(reqBodySpec.result, payload, allErrors(routerOpts))
      response == errorResponse("request", routerOpts, checked.errors)
  IN IF described.method = "get" THEN Pass
     ELSE IF described.path = <<>> THEN Pass
     ELSE IF ~Truthy(payload) THEN Pass
     ELSE IF ~described.found THEN Pass
     ELSE IF At(described.options, <<"autoValidate", "request", "validate">>) # Bool(TRUE)
       THEN Pass
     ELSE IF reqBodySpec.threw THEN Pass
     ELSE IF ~Truthy(reqBodySpec.result) THEN Pass
     ELSE IF ~compiles(reqBodySpec.result) THEN Pass
     ELSE IF checked.isValid THEN Pass
     ELSE IF response.kind = "throw" THEN Pass
     ELSE response

\* hooks.preSerialization(request, reply, payload), router.ts:412-432; the
\* reply is an object with the status code the handler set
preSerialization(rs, routerOpts, request, reply, payload) ==
  LET described == describeOperation(rs, routerOpts, request)
      resBodySpec == getResponseSchema(described.operation.specification, reply, Undefined)
      checked == validate(resBodySpec.result, payload, allErrors(routerOpts))
  IN IF ~Truthy(payload) THEN Pass
     ELSE IF ~described.found THEN Pass
     ELSE IF resBodySpec.threw THEN Throw
     ELSE IF ~Truthy(resBodySpec.result) THEN Pass
     ELSE IF ~compiles(resBodySpec.result) THEN Throw
     ELSE IF checked.isValid THEN Pass
     ELSE errorResponse("response", routerOpts, checked.errors)

\* the handlers initialize() registers with the host, router.ts:259-269: each
\* operation under the path composed from the stored path of its Route
registered(rs, routerOpts) ==
  UNION { { [route |-> i,
             method |-> m,
             path |-> getOperationPath(
                        rs[i].path,
                        getOperationOptions(OrEmpty(rs[i].methods[m].options),
                                            OrEmpty(rs[i].options), routerOpts)),
             schema |-> IF Truthy(Prop(routerOpts, "specModifier"))
                          THEN Call(Prop(routerOpts, "specModifier"),
                                    rs[i].methods[m].specification)
                          ELSE rs[i].methods[m].specification,
             handler |-> rs[i].methods[m].handler] : m \in DOMAIN rs[i].methods } :
          i \in 1..Len(rs) }

\* initialize(), router.ts:257-280: the host afterwards
initialize(rs, routerOpts) ==
  LET autoValidate == getAutoValidateConfig(Prop(routerOpts, "autoValidate"))
  IN [initialized |-> TRUE,
      handlers |-> registered(rs, routerOpts),
      preValidation |-> At(autoValidate, <<"request", "validate">>) # Bool(FALSE),
      preSerialization |-> At(autoValidate, <<"response", "validate">>) # Bool(FALSE)]

\* onValidationError that looks at errorResponse before onError
onValidationErrorResponseFirst(type, config, errors) ==
  LET autoValidate == getAutoValidateConfig(config)
      side == Prop(autoValidate, type)
  IN IF Truthy(Prop(side, "errorResponse"))
       THEN LET status == Prop(Prop(side, "errorResponse"), "status")
                payload == Prop(Prop(side, "errorResponse"), "payload")
            IN Send(status, IF IsFn(payload) THEN Call(payload, OrElse(errors, Arr(EmptyMap)))
                            ELSE payload)
     ELSE IF Truthy(Prop(side, "onError"))
       THEN [kind |-> "onError", callback |-> Prop(side, "onError"), errors |-> errors]
     ELSE IF type = "request"
       THEN Send(Num(400), Obj([error |-> Str(<<"Invalid Request Body">>), errors |-> errors]))
     ELSE Send(Num(500), Obj([error |-> Str(<<"Internal Server Error">>)]))

\* onValidationError(type, config, request, reply, errors), utils.ts:199-209
onValidationError(type, config, errors) ==
  LET autoValidate == getAutoValidateConfig(config)
      side == Prop(autoValidate, type)
  IN IF Truthy(Prop(side, "onError"))
       THEN [kind |-> "onError", callback |-> Prop(side, "onError"), errors |-> errors]
     ELSE IF Truthy(Prop(side, "errorResponse"))
       THEN LET status == Prop(Prop(side, "errorResponse"), "status")
                payload == Prop(Prop(side, "errorResponse"), "payload")
            IN Send(status, IF IsFn(payload) THEN Call(payload, OrElse(errors, Arr(EmptyMap)))
                            ELSE payload)
     ELSE IF type = "request"
       THEN Send(Num(400), Obj([error |-> Str(<<"Invalid Request Body">>), errors |-> errors]))
     ELSE Send(Num(500), Obj([error |-> Str(<<"Internal Server Error">>)]))

-----------------------------------------------------------------------------
(* The router during start-up: route(), ref() and the specification getter *)

NoInput == <<>>

\* new OpenApiRouter(app, document, options), router.ts:56-61
Init ==
  /\ \E c \in Constructions : options = c.options /\ document = c.document
  /\ routes = <<>>
  /\ calls = <<>>
  /\ app = NoApp
  /\ input = NoInput
  /\ last = [op |-> "none"]

\* a call of route(path, methods, options)
Route ==
  /\ Len(calls) < MaxRouteCalls
  /\ ~app.initialized
  /\ \E c \in RouteCalls :
       /\ routes' = route(routes, c.path, c.methods, c.options, options)
       /\ calls' = Append(calls, c)
       /\ last' = [op |-> "route"]
  /\ UNCHANGED <<options, document, app, input>>

\* a read of the specification getter
ReadSpecification ==
  /\ LET got == specification(document, routes, options)
     IN /\ last' = [op |-> "specification", result |-> got.result, before |-> document]
        /\ document' = got.document
  /\ UNCHANGED <<options, routes, calls, app, input>>

\* a call of ref(ref, options)
Ref ==
  /\ \E c \in RefCalls :
       LET got == ref(document, c.ref, c.options)
       IN last' = [op |-> "ref", ref |-> c.ref, options |-> c.options,
                   threw |-> got.threw, result |-> got.result, before |-> document]
  /\ UNCHANGED <<options, document, routes, calls, app, input>>

Next == Route \/ ReadSpecification \/ Ref

Spec == Init /\ [][Next]_vars

-----------------------------------------------------------------------------
(* The option utilities applied to every triple of level options.          *)

InitOptions ==
  /\ options = EmptyObj
  /\ document = EmptyObj
  /\ routes = <<>>
  /\ calls = <<>>
  /\ app = NoApp
  /\ input \in [operatorOptions : LevelOptions, routeOptions : LevelOptions,
                routerOptions : LevelOptions]
  /\ last = [op |-> "none"]

\* a call of getOperationOptions
GetOperationOptions ==
  /\ last' = [op |-> "getOperationOptions",
              result |-> getOperationOptions(input.operatorOptions,
                                             input.routeOptions, input.routerOptions)]
  /\ UNCHANGED <<options, document, routes, calls, app, input>>

\* the option resolution of describeOperation
ResolveOptions ==
  /\ last' = [op |-> "resolveOptions",
              result |-> resolveOptions(input.operatorOptions,
                                        input.routeOptions, input.routerOptions)]
  /\ UNCHANGED <<options, document, routes, calls, app, input>>

\* a call of getDefaultOperationOptions
GetDefaultOperationOptions ==
  /\ last' = [op |-> "getDefaultOperationOptions",
              result |-> getDefaultOperationOptions(input.operatorOptions,
                                                    input.routeOptions, input.routerOptions)]
  /\ UNCHANGED <<options, document, routes, calls, app, input>>

NextOptions == GetOperationOptions \/ ResolveOptions \/ GetDefaultOperationOptions

SpecOptions == InitOptions /\ [][NextOptions]_vars

-----------------------------------------------------------------------------
(* The router serving requests: route(), initialize(), then requests that  *)
(* run preValidation, the handler and preSerialization.                    *)

\* the bodies of the requests
Bodies == {Undefined, Obj([id |-> Num(1)]), Obj([name |-> Str(<<"x">>)])}

\* what a handler may answer: the status code it sets and the payload it returns
HandlerReplies ==
  { [status |-> Num(200), payload |-> Obj([id |-> Num(1)])],
    [status |-> Num(200), payload |-> Obj([name |-> Str(<<"x">>)])],
    [status |-> Num(200), payload |-> Undefined],
    [status |-> Num(201), payload |-> Obj([name |-> Str(<<"x">>)])] }

\* the host's answer when a hook throws
HostError ==
  [status |-> Num(500),
   payload |-> Obj([statusCode |-> Num(500), error |-> Str(<<"Internal Server Error">>)])]

\* the onValidationError(type, config, request, reply, errors) calls
ValidationErrorCalls ==
  [type : {"request", "response"},
   config : { Undefined,
              Bool(TRUE),
              ServiceValidation,
              Obj([request |-> Obj([validate |-> Bool(TRUE), onError |-> Fn("onError")]),
                   response |-> Bool(TRUE)]),
              Obj([request |-> Obj([validate |-> Bool(TRUE), onError |-> Fn("onError"),
                                    errorResponse |-> ErrorResponse(422, "unused")]),
                   response |-> Obj([onError |-> Fn("onError"),
                                     errorResponse |-> ErrorResponseFn(502, "listErrors")])]) },
   errors : {ArrOf(<<MissingProperty(Str(<<"id">>))>>)}]

MaxServedRoutes == 1

\* a schema the engine cannot compile
MalformedSchema == Obj([type |-> Str(<<"objekt">>)])

\* an operation specification whose request body and 200 response are
\* described by a malformed schema
SpecMalformed(summary) ==
  Obj([summary |-> Str(<<summary>>),
       requestBody |->
         Obj([required |-> Bool(TRUE),
              content |-> Obj([c \in {ApplicationJson} |->
                                 Obj([schema |-> MalformedSchema])])]),
       responses |->
         Obj([code \in {"200"} |->
                Obj([description |-> Str(<<"OK">>),
                     content |-> Obj([c \in {ApplicationJson} |->
                                        Obj([schema |-> MalformedSchema])])])])])

OpMalformed ==
  op(SpecMalformed("malformed"), "hMalformed", Obj([autoValidate |-> Bool(TRUE)]))

\* service-level validation settings whose error payload functions throw
FailingValidation ==
  Obj([request |-> Obj([validate |-> Bool(TRUE),
                        errorResponse |-> ErrorResponseFn(400, "failing")]),
       response |-> Obj([validate |-> Bool(TRUE),
                         errorResponse |-> ErrorResponseFn(500, "failing")])])

\* (options, document) pairs a serving router is constructed with
ServeConstructions ==
  Constructions \cup
    { [options |-> Obj([autoValidate |-> FailingValidation]), document |-> DocBare] }

\* the route(path, methods, options) calls of a service that will serve
ServeRouteCalls ==
  RouteCalls \cup
    { [path |-> PathA, methods |-> [m \in {"post"} |-> OpMalformed],
       options |-> Undefined] }

\* new OpenApiRouter(app, document, options) of a service that will serve,
\* router.ts:56-61
InitServe ==
  /\ \E c \in ServeConstructions : options = c.options /\ document = c.document
  /\ routes = <<>>
  /\ calls = <<>>
  /\ app = NoApp
  /\ input = NoInput
  /\ last = [op |-> "none"]

\* a call of route() by the start-up code of a service that will serve
RouteBeforeServing ==
  /\ Len(calls) < MaxServedRoutes
  /\ ~app.initialized
  /\ \E c \in ServeRouteCalls :
       /\ routes' = route(routes, c.path, c.methods, c.options, options)
       /\ calls' = Append(calls, c)
       /\ last' = [op |-> "route"]
  /\ UNCHANGED <<options, document, app, input>>

\* the call of initialize()
Initialize ==
  /\ ~app.initialized
  /\ app' = initialize(routes, options)
  /\ last' = [op |-> "initialize"]
  /\ UNCHANGED <<options, document, routes, calls, input>>

\* the host serves a request that matches a registered handler: preValidation
\* if installed, the handler unless a response was sent, then preSerialization
\* if installed
Request ==
  /\ app.initialized
  /\ \E h \in app.handlers, body \in Bodies, answer \in HandlerReplies :
       LET request == [method |-> h.method, url |-> h.path, body |-> body]
           reply == Obj([statusCode |-> answer.status])
       IN \E pre \in {IF app.preValidation THEN preValidation(routes, options, request)
                      ELSE Pass} :
          \E post \in {IF pre.kind = "pass" /\ app.preSerialization
                         THEN preSerialization(routes, options, request, reply,
                                               answer.payload)
                         ELSE Pass} :
          \E sent \in {IF pre.kind = "throw" THEN HostError
                       ELSE IF pre.kind = "send"
                         THEN [status |-> pre.status, payload |-> pre.payload]
                       ELSE IF post.kind = "send"
                         THEN [status |-> post.status, payload |-> post.payload]
                       ELSE IF post.kind = "throw" THEN HostError
                       ELSE answer} :
            last' = [op |-> "request", route |-> h.route, method |-> h.method,
                     url |-> h.path, body |-> body,
                     invoked |-> pre.kind = "pass",
                     answer |-> answer,
                     replaced |-> pre.kind = "pass" /\ post.kind = "send",
                     escaped |-> pre.kind = "throw" \/ post.kind = "throw",
                     status |-> sent.status, payload |-> sent.payload]
  /\ UNCHANGED <<options, document, routes, calls, app, input>>

\* a call of the onValidationError utility
OnValidationError ==
  /\ \E c \in ValidationErrorCalls :
       last' = [op |-> "onValidationError", type |-> c.type, config |-> c.config,
                errors |-> c.errors,
                outcome |-> onValidationError(c.type, c.config, c.errors)]
  /\ UNCHANGED <<options, document, routes, calls, app, input>>

NextServe == RouteBeforeServing \/ Initialize \/ Request \/ OnValidationError

SpecServe == InitServe /\ [][NextServe]_vars

-----------------------------------------------------------------------------
(* Vocabulary of the claims about option resolution.                       *)

\* a request or response entry with its boolean shorthand written out
ExpandSide(side) == IF IsBool(side) THEN Obj([validate |-> side]) ELSE side

\* an autoValidate value with its boolean shorthands written out
ExpandAutoValidate(av) ==
  IF IsBool(av)
    THEN Obj([request |-> Obj([validate |-> av]), response |-> Obj([validate |-> av])])
  ELSE IF IsObj(av)
    THEN Obj([k \in DOMAIN av.obj |->
                IF k \in {"request", "response"} THEN ExpandSide(av.obj[k])
                ELSE av.obj[k]])
  ELSE av

\* one level's options with the boolean shorthands written out
Expand(opts) ==
  IF IsObj(opts) /\ "autoValidate" \in DOMAIN opts.obj
    THEN Obj([k \in DOMAIN opts.obj |->
                IF k = "autoValidate" THEN ExpandAutoValidate(opts.obj[k])
                ELSE opts.obj[k]])
    ELSE opts

\* the leaf configuration fields
Leaves ==
  { <<"excludeFromSpecification">>,
    <<"autoValidate", "request", "validate">>,
    <<"autoValidate", "request", "errorResponse", "status">>,
    <<"autoValidate", "response", "validate">>,
    <<"autoValidate", "response", "errorResponse", "status">> }

\* what a level sets for a leaf (Undefined: it does not set it)
LevelValue(opts, leaf) == At(Expand(opts), leaf)

\* operator over route over service
ByPrecedence(in, leaf) ==
  Coalesce(LevelValue(in.operatorOptions, leaf),
           Coalesce(LevelValue(in.routeOptions, leaf),
                    LevelValue(in.routerOptions, leaf)))

\* C1: for every triple of options and every leaf field, the value in the
\* result of getOperationOptions is the operator's if the operator sets it,
\* else the route's, else the service's, else absent.
C1_LeafPrecedence ==
  last.op = "getOperationOptions" =>
    \A leaf \in Leaves : LevelValue(last.result, leaf) = ByPrecedence(input, leaf)

\* the triple with the boolean autoValidate of one level written as
\* {request: {validate: b}, response: {validate: b}}
ExpandLevel(in, level) ==
  [in EXCEPT ![level] =
     IF IsBool(Prop(in[level], "autoValidate")) THEN Expand(in[level]) ELSE in[level]]

\* the request and response configuration describeOperation resolves
Sides(resolved) ==
  <<At(resolved, <<"autoValidate", "request">>),
    At(resolved, <<"autoValidate", "response">>)>>

\* C5: at every level, autoValidate given as the boolean b resolves to the same
\* request and response configuration as {request: {validate: b}, response:
\* {validate: b}} given at that level, whatever the other two levels hold.
C5_BooleanShorthand ==
  last.op = "resolveOptions" =>
    \A level \in {"operatorOptions", "routeOptions", "routerOptions"} :
      LET other == ExpandLevel(input, level)
      IN Sides(last.result) =
           Sides(resolveOptions(other.operatorOptions, other.routeOptions,
                                other.routerOptions))

-----------------------------------------------------------------------------
(* Claims about the registry, the assembler and the reference resolver.    *)

\* the final composed path of a route() call: the route's prefix if it gives
\* one, else the service's, applied to the raw path
FinalPath(c) ==
  getOperationPath(c.path, getOperationOptions(Undefined, c.options, options))

\* the calls made so far for the final path p
CallsFor(p) == {k \in 1..Len(calls) : FinalPath(calls[k]) = p}

\* the latest call for p that gives method m
LatestGiving(p, m) ==
  CHOOSE k \in CallsFor(p) :
    /\ m \in DOMAIN calls[k].methods
    /\ \A j \in CallsFor(p) : m \in DOMAIN calls[j].methods => j <= k

\* the union of the method maps of the calls for p, the latest call winning
UnionOfCalls(p) ==
  [m \in UNION {DOMAIN calls[k].methods : k \in CallsFor(p)} |->
     calls[LatestGiving(p, m)].methods[m]]

\* C3: after any sequence of route() calls the registry holds one Route per
\* final composed path, whose methods are the union of the method maps of all
\* calls for that path, the latest call winning on a method given several times.
C3_OneRoutePerFinalPath ==
  /\ \A i, j \in 1..Len(routes) : routes[i].path = routes[j].path => i = j
  /\ \A i \in 1..Len(routes) : CallsFor(routes[i].path) # {}
  /\ \A k \in 1..Len(calls) :
       \E i \in 1..Len(routes) :
         /\ routes[i].path = FinalPath(calls[k])
         /\ routes[i].methods = UnionOfCalls(routes[i].path)

\* two calls with different raw paths share one Route, the later call
\* re-gives a method with another operation and leaves another method alone
C3_Witness ==
  \E i \in 1..Len(routes) :
    \E k1, k2 \in CallsFor(routes[i].path) :
      /\ k1 < k2
      /\ calls[k1].path # calls[k2].path
      /\ \E m \in DOMAIN calls[k1].methods \cap DOMAIN calls[k2].methods :
           /\ calls[k1].methods[m] # calls[k2].methods[m]
           /\ routes[i].methods[m] = calls[k2].methods[m]
      /\ \E m \in DOMAIN calls[k1].methods \ DOMAIN calls[k2].methods :
           routes[i].methods[m] = calls[k1].methods[m]

\* the resolved excludeFromSpecification of method m of Route r is not true
Visible(r, m) ==
  Prop(getOperationOptions(r.methods[m].options, r.options, options),
       "excludeFromSpecification") # Bool(TRUE)

\* C4: for a static document without its own paths, the document the getter
\* returns has paths[p][m] exactly when some Route whose document-form path is p
\* has a method m whose resolved excludeFromSpecification is not true, and it
\* has no path with an empty method map.
C4_PathsAreTheVisibleOperations ==
  (last.op = "specification" /\ "paths" \notin DOMAIN Map(last.before)) =>
    LET paths == Map(Prop(last.result, "paths"))
        docPaths == {replacePathWithOpenApiParams(routes[i].path) : i \in 1..Len(routes)}
    IN /\ \A p \in DOMAIN paths : DOMAIN Map(paths[p]) # {}
       /\ \A p \in DOMAIN paths \cup docPaths : \A m \in OPERATOR_NAMES :
            (p \in DOMAIN paths /\ m \in DOMAIN Map(paths[p]))
              <=> \E i \in 1..Len(routes) :
                    /\ replacePathWithOpenApiParams(routes[i].path) = p
                    /\ m \in DOMAIN routes[i].methods
                    /\ Visible(routes[i], m)

\* the section and the name a reference string names
RefSection(r) == r[5]
RefName(r) == r[7]

\* C6: ref(r, {override}) with useRef not set returns the referenced component
\* with the override deep-merged on top, and leaves the document as it was.
C6_RefMergesOverride ==
  (/\ last.op = "ref"
   /\ ~IsUndefined(Prop(last.options, "override"))
   /\ ~Truthy(Prop(last.options, "useRef"))
   /\ ~IsUndefined(At(last.before, <<"components", RefSection(last.ref), RefName(last.ref)>>)))
  => /\ ~last.threw
     /\ last.result =
          deepMerge(At(last.before, <<"components", RefSection(last.ref), RefName(last.ref)>>),
                    Prop(last.options, "override"))
     /\ document = last.before

\* C7: ref('#/components/<section>/<name>') without useRef returns a copy of
\* document.components[section][name], and an empty object, without throwing,
\* when the component, its section or the components map does not exist.
C7_RefLooksUpSection ==
  (/\ last.op = "ref"
   /\ IsUndefined(Prop(last.options, "override"))
   /\ ~Truthy(Prop(last.options, "useRef")))
  => /\ ~last.threw
     /\ last.result =
          Obj(Map(At(last.before, <<"components", RefSection(last.ref), RefName(last.ref)>>)))

-----------------------------------------------------------------------------
(* Claims about the validation hooks.                                      *)

\* the registered operation the latest request was routed to, and its
\* resolved options
ServedOperation == routes[last.route].methods[last.method]
ServedOptions ==
  resolveOptions(ServedOperation.options, routes[last.route].options, options)

\* the schemas an operation declares for its request body and for a status code
RequestBodySchemaOf(operation) ==
  At(operation.specification, <<"requestBody", "content", ApplicationJson, "schema">>)
ResponseSchemaOf(operation, status) ==
  At(operation.specification,
     <<"responses", ToString(status.num), "content", ApplicationJson, "schema">>)

\* a payload is present, a schema is declared for it, and it does not meet it
FailsSchema(schema, payload) ==
  /\ Truthy(payload)
  /\ ~IsUndefined(schema)
  /\ ~validate(schema, payload, TRUE).isValid

\* the latest request is a non-GET request to an operation whose resolved
\* request.validate is true, with a body that fails its request-body schema
RequestFails ==
  /\ last.op = "request"
  /\ last.method # "get"
  /\ At(ServedOptions, <<"autoValidate", "request", "validate">>) = Bool(TRUE)
  /\ FailsSchema(RequestBodySchemaOf(ServedOperation), last.body)

\* the handler of the latest request answered, for an operation whose resolved
\* response.validate is true, with a payload that fails the schema declared
\* for the status code it set
ResponseFails ==
  /\ last.op = "request"
  /\ last.invoked
  /\ At(ServedOptions, <<"autoValidate", "response", "validate">>) = Bool(TRUE)
  /\ FailsSchema(ResponseSchemaOf(ServedOperation, last.answer.status), last.answer.payload)

\* the errors the engine reports for the body, and for the handler's payload
RequestErrors ==
  validate(RequestBodySchemaOf(ServedOperation), last.body, allErrors(options)).errors
ResponseErrors ==
  validate(ResponseSchemaOf(ServedOperation, last.answer.status), last.answer.payload,
           allErrors(options)).errors

\* neither an errorResponse nor an onError callback is configured for either
\* side at the level whose options are given
Unconfigured(level) ==
  \A side \in {"request", "response"} : \A key \in {"errorResponse", "onError"} :
    IsUndefined(At(level, <<"autoValidate", side, key>>))

\* nothing is configured at the service, the route or the operator level
NothingConfigured ==
  /\ Unconfigured(options)
  /\ Unconfigured(routes[last.route].options)
  /\ Unconfigured(ServedOperation.options)

\* C2: a non-GET request to a registered operation whose resolved
\* autoValidate.request.validate is true, with a body that fails the operation's
\* request-body schema, never reaches the handler, and (no error response being
\* configured) is answered with status 400 and a non-empty errors array.
C2_InvalidBodyIsRejected ==
  RequestFails =>
    /\ ~last.invoked
    /\ NothingConfigured =>
         /\ last.status = Num(400)
         /\ IsArr(Prop(last.payload, "errors"))
         /\ DOMAIN Map(Prop(last.payload, "errors")) # {}

\* the response an errorResponse setting asks for
Configured(setting, errors) ==
  [status |-> Prop(setting, "status"),
   payload |-> IF IsFn(Prop(setting, "payload"))
                 THEN Call(Prop(setting, "payload"), errors)
                 ELSE Prop(setting, "payload")]

\* C8: when request or response validation fails for an operation, the status
\* and payload of the error response are those of the errorResponse in the
\* operation's resolved options (operator over route over service).
C8_ErrorResponseIsTheResolvedOne ==
  /\ (RequestFails
      /\ ~IsUndefined(At(ServedOptions, <<"autoValidate", "request", "errorResponse">>)))
     => [status |-> last.status, payload |-> last.payload] =
          Configured(At(ServedOptions, <<"autoValidate", "request", "errorResponse">>),
                     RequestErrors)
  /\ (ResponseFails
      /\ ~IsUndefined(At(ServedOptions, <<"autoValidate", "response", "errorResponse">>)))
     => [status |-> last.status, payload |-> last.payload] =
          Configured(At(ServedOptions, <<"autoValidate", "response", "errorResponse">>),
                     ResponseErrors)

\* C9: with no error callback and no errorResponse configured at any level, a
\* request validation failure produces status 400 with the body
\* {error: "Invalid Request Body", errors}, and a response validation failure
\* produces status 500 with a body whose error field is "Invalid Response";
\* the onValidationError utility answers the same for a configuration without
\* either.
C9_DefaultErrorResponses ==
  /\ (RequestFails /\ NothingConfigured) =>
       /\ last.status = Num(400)
       /\ last.payload = Obj([error |-> Str(<<"Invalid Request Body">>),
                              errors |-> RequestErrors])
  /\ (ResponseFails /\ ~RequestFails /\ NothingConfigured) =>
       /\ last.status = Num(500)
       /\ Prop(last.payload, "error") = Str(<<"Invalid Response">>)
  /\ (last.op = "onValidationError" /\ last.config \in {Undefined, Bool(TRUE)}) =>
       IF last.type = "request"
         THEN last.outcome = Send(Num(400), Obj([error |-> Str(<<"Invalid Request Body">>),
                                                 errors |-> last.errors]))
         ELSE /\ last.outcome.kind = "send"
              /\ last.outcome.status = Num(500)
              /\ Prop(last.outcome.payload, "error") = Str(<<"Invalid Response">>)

\* C10: preSerialization replaces the handler's response only when the
\* operation's resolved autoValidate.response.validate is true, a payload is
\* present and the payload fails the schema declared for the status code set
\* on the reply; when the resolved response.validate is false, or there is no
\* payload, the handler's status and payload go out unchanged.
C10_ResponseReplacedOnlyOnFailure ==
  (last.op = "request" /\ last.invoked) =>
    /\ last.replaced => ResponseFails
    /\ (\/ At(ServedOptions, <<"autoValidate", "response", "validate">>) = Bool(FALSE)
        \/ ~Truthy(last.answer.payload))
       => /\ ~last.replaced
          /\ [status |-> last.status, payload |-> last.payload] = last.answer

\* preSerialization is installed and finds the operation of a request whose
\* handler returned a payload that fails the schema of the status it set, the
\* operation's resolved response.validate is false, and the payload went out
C10_Witness ==
  /\ last.op = "request"
  /\ last.invoked
  /\ app.preSerialization
  /\ findRoute(routes, last.url) # 0
  /\ At(getAutoValidateConfig(Prop(options, "autoValidate")),
        <<"response", "validate">>) = Bool(TRUE)
  /\ At(ServedOptions, <<"autoValidate", "response", "validate">>) = Bool(FALSE)
  /\ FailsSchema(ResponseSchemaOf(ServedOperation, last.answer.status), last.answer.payload)
  /\ [status |-> last.status, payload |-> last.payload] = last.answer

-----------------------------------------------------------------------------
(* Claims about the exclusion of operations from the document.             *)

\* the entry the document returned by the getter has for method m of Route r
Listed(r, m) ==
  Prop(At(last.result, <<"paths", replacePathWithOpenApiParams(r.path)>>), m)

\* C11: excludeFromSpecification is resolved per operation, operator over route
\* over service: an operation whose operator options set it to false is in the
\* assembled document even when its route or the service sets it to true, and
\* an operation is left out exactly when its resolved value is true.
C11_ExclusionIsResolvedPerOperation ==
  (last.op = "specification" /\ "paths" \notin DOMAIN Map(last.before)) =>
    \A i \in 1..Len(routes) : \A m \in DOMAIN routes[i].methods :
      /\ Prop(routes[i].methods[m].options, "excludeFromSpecification") = Bool(FALSE)
           => Listed(routes[i], m) = routes[i].methods[m].specification
                \/ Truthy(Prop(options, "specModifier"))
      /\ IsUndefined(Listed(routes[i], m)) <=> ~Visible(routes[i], m)

-----------------------------------------------------------------------------
(* The utilities of utils.ts applied to inputs drawn from bounded sets.    *)

\* the strings over an alphabet, up to a length
Strings(alphabet, n) == UNION {[1..k -> alphabet] : k \in 0..n}

MaxPathLen == 4
MaxPrefixLen == 2

PathAlphabet == {"/", " ", "a"}
ParamAlphabet == {":", "a", "1", "_", "/"}

\* getOperationPath(path, {prefix})
PathInputs ==
  [fn : {"getOperationPath"},
   path : Strings(PathAlphabet, MaxPathLen),
   prefix : {Undefined} \cup {Str(p) : p \in Strings(PathAlphabet, MaxPrefixLen)}]

\* replacePathWithOpenApiParams(path)
ParamInputs ==
  [fn : {"replacePathWithOpenApiParams"}, path : Strings(ParamAlphabet, MaxPathLen)]

\* the options of a second composition: no prefix, or an empty one
NoPrefix ==
  {Undefined, EmptyObj, Obj([prefix |-> Undefined]), Obj([prefix |-> Str(<<>>)])}

GetOperationPath ==
  /\ input.fn = "getOperationPath"
  /\ last.op = "none"
  /\ last' = [op |-> "getOperationPath",
              result |-> getOperationPath(input.path, Obj([prefix |-> input.prefix]))]
  /\ UNCHANGED <<options, document, routes, calls, app, input>>

\* the composed path is composed again
ComposeAgain ==
  /\ last.op = "getOperationPath"
  /\ \E o \in NoPrefix :
       last' = [op |-> "composeAgain", first |-> last.result, options |-> o,
                again |-> getOperationPath(last.result, o)]
  /\ UNCHANGED <<options, document, routes, calls, app, input>>

ReplacePathWithOpenApiParams ==
  /\ input.fn = "replacePathWithOpenApiParams"
  /\ last.op = "none"
  /\ last' = [op |-> "replacePathWithOpenApiParams",
              result |-> replacePathWithOpenApiParams(input.path)]
  /\ UNCHANGED <<options, document, routes, calls, app, input>>

\* the trees deepMerge is applied to: objects over the keys "a" and "b" whose
\* values are leaves or objects nested to a depth
MaxDepth == 1

TreeLeaves == {Undefined, Null, Num(1), Arr([i \in {"0"} |-> Num(2)])}

RECURSIVE Nested(_)
Nested(d) ==
  IF d = 0 THEN TreeLeaves
  ELSE TreeLeaves \cup {EmptyObj} \cup {Obj([k \in {"x"} |-> v]) : v \in Nested(d - 1)}

Trees ==
  UNION {{Obj(f) : f \in [keys -> Nested(MaxDepth)]} : keys \in SUBSET {"a", "b"}}

\* deepMerge(base, value)
MergeInputs == [fn : {"deepMerge"}, base : Trees, value : Trees]

\* getAutoValidateConfig(config)
SideInputs ==
  { Undefined, Bool(TRUE), Bool(FALSE),
    Obj([validate |-> Bool(TRUE)]),
    Obj([validate |-> Bool(TRUE), errorResponse |-> ErrorResponse(422, "custom")]),
    Obj([errorResponse |-> ErrorResponseFn(500, "listErrors")]) }

ConfigInputs ==
  [fn : {"getAutoValidateConfig"},
   config : {Undefined, Null, Bool(FALSE), Bool(TRUE), Num(0), Str(<<>>)}
            \cup {Obj([k \in {"request", "response", "config"} |->
                         IF k = "request" THEN rq
                         ELSE IF k = "response" THEN rs
                         ELSE c]) :
                    rq \in SideInputs, rs \in SideInputs,
                    c \in {Undefined, Obj([allErrors |-> Bool(TRUE)])}}
            \cup {EmptyObj, Obj([request |-> Bool(TRUE)]),
                  Obj([response |-> Obj([validate |-> Bool(TRUE)])])}]

\* getResponseSchema(contentType, specification, response)
TextPlain == "text/plain"
TextSchema == Obj([type |-> Str(<<"string">>)])

\* a responses entry with a schema for each of the content types named
ResponseWith(types) ==
  Obj([description |-> Str(<<"OK">>),
       content |-> Obj([t \in types |->
                          Obj([schema |-> IF t = ApplicationJson THEN Schema(IdRequired)
                                          ELSE TextSchema])])])

ResponseSpecs ==
  { EmptyObj,
    Obj([responses |-> EmptyObj]),
    Obj([responses |-> Obj([code \in {"200"} |-> Obj([description |-> Str(<<"OK">>)])])]),
    Obj([responses |-> Obj([code \in {"200"} |-> ResponseWith({ApplicationJson})])]),
    Obj([responses |-> Obj([code \in {"200"} |-> ResponseWith({TextPlain})])]),
    Obj([responses |-> Obj([code \in {"200"} |-> ResponseWith({ApplicationJson, TextPlain})])]),
    Obj([responses |-> Obj([code \in {"2XX", "default"} |-> ResponseWith({ApplicationJson})])]),
    Obj([responses |-> Obj([code \in {"200", "404"} |->
                              IF code = "200" THEN ResponseWith({ApplicationJson})
                              ELSE ResponseWith({ApplicationJson, TextPlain})])]) }

SchemaInputs ==
  [fn : {"getResponseSchema"},
   contentType : {Str(<<ApplicationJson>>), Str(<<TextPlain>>)},
   specification : ResponseSpecs,
   response : {Obj([statusCode |-> Num(200)]), Obj([statusCode |-> Num(404)])}]

DeepMerge ==
  /\ input.fn = "deepMerge"
  /\ last' = [op |-> "deepMerge", result |-> deepMerge(input.base, input.value)]
  /\ UNCHANGED <<options, document, routes, calls, app, input>>

GetAutoValidateConfig ==
  /\ input.fn = "getAutoValidateConfig"
  /\ last' = [op |-> "getAutoValidateConfig", result |-> getAutoValidateConfig(input.config)]
  /\ UNCHANGED <<options, document, routes, calls, app, input>>

GetResponseSchema ==
  /\ input.fn = "getResponseSchema"
  /\ \E got \in {getResponseSchema(input.contentType, input.specification, input.response)} :
       last' = [op |-> "getResponseSchema", threw |-> got.threw, result |-> got.result]
  /\ UNCHANGED <<options, document, routes, calls, app, input>>

-----------------------------------------------------------------------------
(* deepMerge over a store of objects: an object is a cell of the store, a  *)
(* reference to it is the cell's index, and assigning a property changes   *)
(* the cell.                                                               *)

Reference(n) == [ref |-> n]
IsReference(v) == DOMAIN v = {"ref"}

\* the store with a tree added to it, and the value that stands for the tree
RECURSIVE storeValue(_, _)
RECURSIVE storeProps(_, _, _, _)
storeProps(heap, m, todo, acc) ==
  IF todo = {} THEN [heap |-> heap, props |-> acc]
  ELSE LET k == CHOOSE k \in todo : TRUE
       IN CHOOSE r \in {storeProps(got.heap, m, todo \ {k}, acc @@ (k :> got.value)) :
                          got \in {storeValue(heap, m[k])}} : TRUE

storeValue(heap, v) ==
  IF IsObj(v) \/ IsArr(v)
    THEN CHOOSE r \in {[heap |-> Append(got.heap, [array |-> IsArr(v), props |-> got.props]),
                        value |-> Reference(Len(got.heap) + 1)] :
                         got \in {storeProps(heap, Map(v), DOMAIN Map(v), EmptyMap)}} : TRUE
    ELSE [heap |-> heap, value |-> v]

\* the tree a value of the store stands for
RECURSIVE loadValue(_, _)
loadValue(heap, v) ==
  IF IsReference(v)
    THEN LET props == [k \in DOMAIN heap[v.ref].props |-> loadValue(heap, heap[v.ref].props[k])]
         IN IF heap[v.ref].array THEN Arr(props) ELSE Obj(props)
    ELSE v

\* (result as any)[key] = v
assign(heap, result, key, v) ==
  [heap EXCEPT ![result.ref].props =
     [k \in DOMAIN @ \cup {key} |-> IF k = key THEN v ELSE @[k]]]

\* the loop of deepMerge over the keys of value, utils.ts:19-31
RECURSIVE deepMergeInHeap(_, _, _)
RECURSIVE mergeKeys(_, _, _, _, _)
mergeKeys(heap, base, value, result, todo) ==
  IF todo = {} THEN heap
  ELSE LET key == CHOOSE k \in todo : TRUE
           baseValue == IF key \in DOMAIN heap[base.ref].props
                          THEN heap[base.ref].props[key] ELSE Undefined
           updateValue == heap[value.ref].props[key]
           next ==
             IF IsReference(baseValue) /\ IsReference(updateValue)
               THEN IF heap[updateValue.ref].array
                      THEN assign(heap, result, key, updateValue)
                      ELSE CHOOSE h \in {assign(got.heap, result, key, got.result) :
                                           got \in {deepMergeInHeap(heap, baseValue, updateValue)}} :
                             TRUE
             ELSE IF ~IsUndefined(updateValue)
               THEN assign(heap, result, key, updateValue)
             ELSE heap
       IN mergeKeys(next, base, value, result, todo \ {key})

\* a merge that assigns into base instead of a copy of it
deepMergeInPlace(heap, base, value) ==
  [heap |-> mergeKeys(heap, base, value, base, DOMAIN heap[value.ref].props),
   result |-> base]

\* deepMerge(base, value), utils.ts:17-33, on references into the store: the
\* store afterwards and the reference returned
deepMergeInHeap(heap, base, value) ==
  LET copy == Append(heap, [array |-> heap[base.ref].array, props |-> heap[base.ref].props])
      result == Reference(Len(heap) + 1)
  IN [heap |-> mergeKeys(copy, base, value, result, DOMAIN heap[value.ref].props),
      result |-> result]

\* deepMerge applied to two trees held in a store
DeepMergeInHeap ==
  /\ input.fn = "deepMerge"
  /\ \E base \in {storeValue(<<>>, input.base)} :
     \E value \in {storeValue(base.heap, input.value)} :
     \E got \in {deepMergeInHeap(value.heap, base.value, value.value)} :
       last' = [op |-> "deepMergeInHeap", before |-> value.heap, after |-> got.heap,
                base |-> base.value, value |-> value.value, result |-> got.result]
  /\ UNCHANGED <<options, document, routes, calls, app, input>>

\* the value of a string of decimal digits
RECURSIVE decimal(_)
decimal(digits) ==
  IF digits = <<>> THEN 0
  ELSE 10 * decimal(SubSeq(digits, 1, Len(digits) - 1))
       + (CHOOSE n \in 0..9 : ToString(n) = digits[Len(digits)])

\* Number(value), utils.ts:67: a string is trimmed, the empty string is 0, a
\* signed decimal numeral is its value, any other string is NaN; a boolean is
\* 0 or 1; an array or an object (of more than one element) is NaN
Number(value) ==
  IF IsNum(value) THEN [nan |-> FALSE, num |-> value.num]
  ELSE IF IsBool(value) THEN [nan |-> FALSE, num |-> IF value.bool THEN 1 ELSE 0]
  ELSE IF IsStr(value)
    THEN LET t == trim(value.str)
             signed == t # <<>> /\ t[1] \in {"-", "+"}
             digits == IF signed THEN Tail(t) ELSE t
         IN IF t = <<>> THEN [nan |-> FALSE, num |-> 0]
            ELSE IF digits # <<>> /\ \A i \in 1..Len(digits) : digits[i] \in Digits
              THEN [nan |-> FALSE,
                    num |-> IF signed /\ t[1] = "-" THEN 0 - decimal(digits)
                            ELSE decimal(digits)]
            ELSE [nan |-> TRUE, num |-> 0]
  ELSE [nan |-> TRUE, num |-> 0]

\* the section of the request a parameter declaration reads, utils.ts:58-63
sectionOf(param) ==
  IF Prop(param, "in") = Str(<<"query">>) THEN "query"
  ELSE IF Prop(param, "in") = Str(<<"path">>) THEN "params"
  ELSE IF Prop(param, "in") = Str(<<"header">>) THEN "headers"
  ELSE "none"

\* the loop of parseOperationParameters over the declarations, utils.ts:57-80;
\* result[section] is the request's own object when the request has one, so
\* what the loop reads is what it has written
RECURSIVE parseEach(_, _, _)
parseEach(result, request, params) ==
  IF params = <<>> THEN [threw |-> FALSE, result |-> result]
  ELSE IF Nullish(Head(params)) THEN [threw |-> TRUE, result |-> result]
  ELSE IF sectionOf(Head(params)) = "none" THEN parseEach(result, request, Tail(params))
  ELSE IF Nullish(Prop(request, sectionOf(Head(params))))
    THEN [threw |-> TRUE, result |-> result]
  ELSE LET param == Head(params)
           reqtype == sectionOf(param)
           name == PropertyKey(Prop(param, "name"))
           value == Prop(Prop(result, reqtype), name)
           type == At(param, <<"schema", "type">>)
           parsed == Number(value)
           new == IF type \in {Str(<<"integer">>), Str(<<"number">>)}
                    THEN (IF parsed.nan THEN Undefined ELSE Num(parsed.num))
                  ELSE IF type = Str(<<"boolean">>)
                    THEN (IF IsStr(value) THEN Bool(value.str = <<"t", "r", "u", "e">>)
                          ELSE Bool(Truthy(value)))
                  ELSE value
           section == Obj([k \in DOMAIN Map(Prop(result, reqtype)) \cup {name} |->
                             IF k = name THEN new ELSE Map(Prop(result, reqtype))[k]])
       IN IF Nullish(value) THEN parseEach(result, request, Tail(params))
          ELSE parseEach(Obj([k \in DOMAIN Map(result) |->
                                IF k = reqtype THEN section ELSE Map(result)[k]]),
                         request, Tail(params))

\* parseOperationParameters(specification, request), utils.ts:47-99: the
\* object returned; when the loop throws, the sections as the request has them
parseOperationParameters(spec, request) ==
  LET params == Prop(spec, "parameters")
      result == Obj([k \in {"query", "params", "headers"} |->
                       Coalesce(Prop(request, k), EmptyObj)])
  IN IF ~Truthy(params) THEN result
     ELSE CHOOSE r \in
            { IF done.threw
                THEN Obj([k \in {"query", "params", "headers"} |->
                            IF Nullish(Prop(request, k)) THEN Prop(request, k)
                            ELSE Prop(done.result, k)])
                ELSE done.result :
              done \in {parseEach(result, request, SeqOf(params))} } : TRUE

\* parseOperationParameters(specification, request)
MaxValueLen == 2
ValueAlphabet == {"1", "7", "-", " ", "a"}
ParameterValues ==
  {Str(v) : v \in Strings(ValueAlphabet, MaxValueLen)
                   \cup {<<"t", "r", "u", "e">>, <<"f", "a", "l", "s", "e">>,
                         <<"T", "R", "U", "E">>}}
    \cup {Undefined, Bool(TRUE), Num(5)}

\* a declaration of the parameter `limit`
Declaration(in, type) ==
  Obj([k \in {"name", "in"} \cup (IF type = "none" THEN {} ELSE {"schema"}) |->
         IF k = "name" THEN Str(<<"limit">>)
         ELSE IF k = "in" THEN Str(<<in>>)
         ELSE Obj([type |-> Str(<<type>>)])])

\* a request whose three sections give `limit` the value and `other` "7"
RequestWith(value) ==
  LET section == Obj([k \in {"other"} \cup (IF IsUndefined(value) THEN {} ELSE {"limit"}) |->
                        IF k = "other" THEN Str(<<"7">>) ELSE value])
  IN Obj([query |-> section, params |-> section, headers |-> section])

ParseInputs ==
  [fn : {"parseOperationParameters"},
   specification : {Obj([parameters |-> ArrOf(<<Declaration(in, type)>>)]) :
                      in \in {"query", "path", "header", "cookie"},
                      type \in {"integer", "number", "boolean", "string", "none"}},
   request : {RequestWith(v) : v \in ParameterValues}]
  \cup
  [fn : {"parseOperationParameters"},
   specification : { EmptyObj,
                     Obj([parameters |-> ArrOf(<<Declaration("query", "integer"),
                                                 Declaration("path", "boolean")>>)]),
                     Obj([parameters |-> ArrOf(<<Declaration("query", "integer"), Null>>)]) },
   request : { RequestWith(Str(<<"1">>)),
               Obj([query |-> Obj([limit |-> Str(<<"1", "7">>)])]) }]

ParseOperationParameters ==
  /\ input.fn = "parseOperationParameters"
  /\ last' = [op |-> "parseOperationParameters",
              result |-> parseOperationParameters(input.specification, input.request)]
  /\ UNCHANGED <<options, document, routes, calls, app, input>>

\* a utility is given its arguments
InitUtils ==
  /\ input \in PathInputs \cup ParamInputs \cup MergeInputs \cup ConfigInputs \cup SchemaInputs
              \cup ParseInputs
  /\ last = [op |-> "none"]
  /\ options = EmptyObj
  /\ document = DocBare
  /\ routes = <<>>
  /\ calls = <<>>
  /\ app = NoApp

NextUtils ==
  \/ GetOperationPath
  \/ ComposeAgain
  \/ ReplacePathWithOpenApiParams
  \/ DeepMerge
  \/ DeepMergeInHeap
  \/ GetAutoValidateConfig
  \/ GetResponseSchema
  \/ ParseOperationParameters

SpecUtils == InitUtils /\ [][NextUtils]_vars

-----------------------------------------------------------------------------
(* Claims about path composition and parameter tokens.                     *)

\* the prefix, when given, followed by the path: their segments in order
Chain ==
  IF IsStr(input.prefix) THEN input.prefix.str \o <<"/">> \o input.path ELSE input.path

\* the segments of s: its maximal runs without a "/", as pairs of positions
Runs(s) ==
  {r \in (1..Len(s)) \X (1..Len(s)) :
     /\ r[1] <= r[2]
     /\ \A k \in r[1]..r[2] : s[k] # "/"
     /\ (r[1] = 1 \/ s[r[1] - 1] = "/")
     /\ (r[2] = Len(s) \/ s[r[2] + 1] = "/")}

\* the segments that are not blank, each without the whitespace around it
Trimmed(s) ==
  {t \in (1..Len(s)) \X (1..Len(s)) :
     \E r \in Runs(s) :
       /\ r[1] <= t[1] /\ t[1] <= t[2] /\ t[2] <= r[2]
       /\ s[t[1]] \notin Whitespace /\ s[t[2]] \notin Whitespace
       /\ \A k \in (r[1]..(t[1] - 1)) \cup ((t[2] + 1)..r[2]) : s[k] \in Whitespace}

\* the segments of a set, each after a "/", in the order of their positions
RECURSIVE Slashed(_, _)
Slashed(s, segments) ==
  IF segments = {} THEN <<>>
  ELSE LET first == CHOOSE t \in segments : \A u \in segments : t[1] <= u[1]
       IN <<"/">> \o SubSeq(s, first[1], first[2]) \o Slashed(s, segments \ {first})

\* C12: getOperationPath(path, {prefix}) is "/" followed by the "/"-join of the
\* segments of the prefix (when given) and then of the path, each trimmed of
\* whitespace, those empty after trimming discarded, in their original order;
\* the result has one leading slash, no trailing slash and no empty segment.
C12_PathIsTheJoinOfItsSegments ==
  last.op = "getOperationPath" =>
    /\ last.result = (IF Trimmed(Chain) = {} THEN <<"/">> ELSE Slashed(Chain, Trimmed(Chain)))
    /\ last.result[1] = "/"
    /\ \A i \in 1..(Len(last.result) - 1) : ~(last.result[i] = "/" /\ last.result[i + 1] = "/")
    /\ Trimmed(Chain) # {} => last.result[Len(last.result)] # "/"

\* a prefix and a path with a blank segment and a segment to trim
C12_Witness ==
  /\ last.op = "getOperationPath"
  /\ input.prefix = Str(<<"/", "a">>)
  /\ input.path = <<" ", "/", "a", " ">>
  /\ last.result = <<"/", "a", "/", "a">>

\* C13: composing the result of getOperationPath again, with an empty or an
\* absent prefix, returns the same string.
C13_CompositionIsIdempotent ==
  last.op = "composeAgain" => last.again = last.first

\* a path that composition changed is composed again
C13_Witness ==
  /\ last.op = "composeAgain"
  /\ input.path = <<"/", "/", "a", " ">>
  /\ last.first = <<"/", "a">>
  /\ last.options = Obj([prefix |-> Str(<<>>)])
  /\ last.again = <<"/", "a">>

\* position i of s starts a parameter token: a ":" before a letter or "_"
StartsToken(s, i) == s[i] = ":" /\ i < Len(s) /\ s[i + 1] \in NameStart

\* position i of s ends a parameter token: the last of the name characters
\* that follow the ":" of a token
EndsToken(s, i) ==
  /\ s[i] \in NameChar
  /\ (i = Len(s) \/ s[i + 1] \notin NameChar)
  /\ \E k \in 1..(i - 1) :
       StartsToken(s, k) /\ \A j \in (k + 1)..i : s[j] \in NameChar

\* s from position i on, with "{" for the ":" of each token and "}" after it
RECURSIVE Braced(_, _)
Braced(s, i) ==
  IF i > Len(s) THEN <<>>
  ELSE (IF StartsToken(s, i) THEN <<"{">> ELSE <<s[i]>>)
       \o (IF EndsToken(s, i) THEN <<"}">> ELSE <<>>)
       \o Braced(s, i + 1)

\* C14: replacePathWithOpenApiParams rewrites every token ":name" whose name
\* starts with a letter or "_" to "{name}", leaves tokens whose name starts
\* with a digit and all other text as they are, and returns a path without
\* tokens, the empty path included, unchanged.
C14_ParameterTokensAreBraced ==
  last.op = "replacePathWithOpenApiParams" =>
    /\ last.result = Braced(input.path, 1)
    /\ (\A i \in 1..Len(input.path) : ~StartsToken(input.path, i)) => last.result = input.path

\* a token whose name starts with a digit beside one that is rewritten
C14_Witness ==
  /\ last.op = "replacePathWithOpenApiParams"
  /\ input.path = <<":", "1", ":", "_">>
  /\ last.result = <<":", "1", "{", "_", "}">>

-----------------------------------------------------------------------------
(* Claims about deepMerge.                                                 *)

\* the merge of two maps as the cases of the claim give it
RECURSIVE MergedByCases(_, _)
MergedByCases(base, patch) ==
  LET bm == Map(base)
      pm == Map(patch)
  IN Obj([k \in DOMAIN bm \cup {k \in DOMAIN pm : ~IsUndefined(pm[k])} |->
            IF k \notin DOMAIN pm THEN bm[k]
            ELSE IF IsObj(Prop(base, k)) /\ IsObj(pm[k]) THEN MergedByCases(bm[k], pm[k])
            ELSE IF IsArr(pm[k]) THEN pm[k]
            ELSE IF IsUndefined(pm[k]) THEN bm[k]
            ELSE pm[k]])

\* C15: deepMerge(base, patch) has, for each key of patch, the recursive merge
\* when both values are maps, the patch's array as a whole when the patch value
\* is an array, the base's value when the patch value is undefined, and the
\* patch's value otherwise; keys only in base keep the base's value.
C15_MergeByCases ==
  last.op = "deepMerge" => last.result = MergedByCases(input.base, input.value)

\* C16: deepMerge never mutates its inputs: after deepMerge(base, patch) every
\* object that existed before the call, base and patch and every map nested in
\* them, has exactly the keys and values it had before.
C16_InputsAreNotMutated ==
  last.op = "deepMergeInHeap" =>
    /\ \A a \in 1..Len(last.before) : last.after[a] = last.before[a]
    /\ loadValue(last.after, last.base) = input.base
    /\ loadValue(last.after, last.value) = input.value

\* a merge that recursed into a nested map and assigned keys at both levels
C16_Witness ==
  /\ last.op = "deepMergeInHeap"
  /\ input.base = Obj([k \in {"a"} |-> Obj([k2 \in {"x"} |-> Num(1)])])
  /\ input.value = Obj([k \in {"a", "b"} |->
                          IF k = "a" THEN Obj([k2 \in {"x"} |-> Null]) ELSE Num(1)])
  /\ loadValue(last.after, last.result) = input.value
  /\ loadValue(last.after, last.result) = deepMerge(input.base, input.value)
  /\ Len(last.after) > Len(last.before)

-----------------------------------------------------------------------------
(* Claims about getAutoValidateConfig and getResponseSchema.               *)

\* what the claim gives for one side of an object configuration
SideByCases(sub) ==
  IF IsBool(sub) THEN Obj([validate |-> sub])
  ELSE IF IsUndefined(sub) THEN Obj([validate |-> Bool(FALSE)])
  ELSE sub

C18_SchemaOfStatusAndContentType ==
  last.op = "getResponseSchema" =>
    /\ ~last.threw
    /\ last.result =
         At(input.specification,
            <<"responses", ToString(Prop(input.response, "statusCode").num), "content",
              PropertyKey(input.contentType), "schema">>)


-----------------------------------------------------------------------------
(* The validation hooks and malformed schemas.                             *)

\* the schemas an operation specification gives for its request body and for
\* its responses
SchemasOf(spec) ==
  {s \in {At(spec, <<"requestBody", "content", ApplicationJson, "schema">>)}
         \cup {At(Prop(spec, "responses"), <<code, "content", ApplicationJson, "schema">>) :
                 code \in DOMAIN Map(Prop(spec, "responses"))} :
     ~IsUndefined(s)}

\* an operation specification with a schema the engine cannot compile
HasMalformedSchema(spec) == \E s \in SchemasOf(spec) : ~compiles(s)

\* a response with a status code and a payload
WellFormed(status, payload) ==
  /\ IsNum(status) /\ status.num \in 100..599
  /\ ~IsUndefined(payload)

\* C19: for every request, operation, options and schema, the schema the
\* engine cannot compile and the error payload function that throws included,
\* neither hook lets an exception escape to the host: the request and the
\* response pass through, or a well-formed error response is sent.
C19_HooksNeverThrow ==
  last.op = "request" =>
    /\ ~last.escaped
    /\ (~last.invoked \/ last.replaced) => WellFormed(last.status, last.payload)
    /\ (last.invoked /\ ~last.replaced) =>
         last.status = last.answer.status /\ last.payload = last.answer.payload

\* both hooks ran for a request with a body to an operation whose schemas the
\* engine cannot compile, in a service whose error payload functions throw
C19_Witness ==
  /\ last.op = "request"
  /\ app.preValidation /\ app.preSerialization
  /\ last.method = "post" /\ Truthy(last.body)
  /\ HasMalformedSchema(ServedOperation.specification)
  /\ At(ServedOptions, <<"autoValidate", "request", "validate">>) = Bool(TRUE)
  /\ Throws(At(options, <<"autoValidate", "request", "errorResponse", "payload">>))
  /\ Throws(At(options, <<"autoValidate", "response", "errorResponse", "payload">>))
  /\ last.invoked /\ Truthy(last.answer.payload)
  /\ ~last.escaped

\* C20: a malformed schema in an operation's specification makes initialize()
\* fail: no service is initialized with such an operation registered, and no
\* request reaches the handler of such an operation unvalidated.
C20_MalformedSchemaFailsAtStartup ==
  /\ app.initialized => \A h \in app.handlers : ~HasMalformedSchema(h.schema)
  /\ (last.op = "request" /\ last.invoked) =>
       ~HasMalformedSchema(ServedOperation.specification)

-----------------------------------------------------------------------------
(* The specification getter and the registry over time.                    *)

\* C21: reading the specification getter never changes the router's static
\* document: after any sequence of route() calls and specification reads,
\* this.document, a paths map it already had included, has exactly the content
\* it was constructed with.
C21_DocumentIsNeverChanged == [][document' = document]_vars

\* the static document the router was constructed with
ConstructedDocument == (CHOOSE c \in Constructions : c.options = options).document

\* C22: the document the getter returns depends only on the static document as
\* constructed and on the registry's current routes and options, not on
\* earlier reads: an operation that an earlier read showed and that is excluded
\* now is not in the next read.
C22_ReadsAreRecomputed ==
  last.op = "specification" =>
    last.result = specification(ConstructedDocument, routes, options).result

-----------------------------------------------------------------------------
(* Claims about the paths initialize() registers and the request hooks.    *)

\* C23: initialize() registers the handler of every operation under the stored
\* final path of its Route (the route's prefix if set, else the service's,
\* applied once to the raw path), so the lookup of the Route by the url of the
\* host's route finds the operation of every request.
C23_RegisteredUnderTheStoredPath ==
  /\ app.initialized => \A h \in app.handlers : h.path = routes[h.route].path
  /\ last.op = "request" =>
       describeOperation(routes, options,
                         [method |-> last.method, url |-> last.url,
                          body |-> last.body]).found

\* the request-body schema the operation of the latest request declares
DeclaredBodySchema == RequestBodySchemaOf(ServedOperation)

\* the latest request is one the pre-validation hook has to skip
SkippedByPreValidation ==
  \/ last.method = "get"
  \/ ~Truthy(last.body)
  \/ ~describeOperation(routes, options,
                        [method |-> last.method, url |-> last.url, body |-> last.body]).found
  \/ At(ServedOptions, <<"autoValidate", "request", "validate">>) # Bool(TRUE)
  \/ IsUndefined(DeclaredBodySchema)

\* C24: the pre-validation hook sends no response and lets the request go on
\* to the handler when the method is GET, the request has no payload, no
\* registered operation matches it, the operation's resolved request.validate
\* is not true, or the operation declares no request-body schema.
C24_SkipsLetTheRequestContinue ==
  (last.op = "request" /\ app.preValidation /\ SkippedByPreValidation) => last.invoked

\* the installed hook let a POST with a body continue to an operation that
\* declares a schema the body does not meet and whose resolved
\* request.validate is false
C24_Witness ==
  /\ last.op = "request" /\ app.preValidation
  /\ last.method = "post" /\ Truthy(last.body)
  /\ ~IsUndefined(DeclaredBodySchema)
  /\ ~validate(DeclaredBodySchema, last.body, TRUE).isValid
  /\ At(ServedOptions, <<"autoValidate", "request", "validate">>) = Bool(FALSE)
  /\ last.invoked

\* the configuration of the side the latest onValidationError call is about
ConfiguredSide == IF IsObj(last.config) THEN Prop(last.config, last.type) ELSE Undefined

\* C25: onValidationError builds the error response by strict precedence: with
\* an onError callback on the side the result is the callback's and
\* errorResponse is not used; else with an errorResponse the reply gets its
\* status and its payload, a payload function applied to the error list; else
\* the built-in default of the side is sent.
C25_ErrorResponseByPrecedence ==
  last.op = "onValidationError" =>
    LET onError == Prop(ConfiguredSide, "onError")
        configured == Prop(ConfiguredSide, "errorResponse")
        payload == Prop(configured, "payload")
    IN IF Truthy(onError)
         THEN last.outcome = [kind |-> "onError", callback |-> onError, errors |-> last.errors]
       ELSE IF Truthy(configured)
         THEN last.outcome = Send(Prop(configured, "status"),
                                  IF IsFn(payload) THEN Call(payload, last.errors) ELSE payload)
       ELSE /\ last.outcome.kind = "send"
            /\ last.outcome.status = (IF last.type = "request" THEN Num(400) ELSE Num(500))
            /\ IsStr(Prop(last.outcome.payload, "error"))

\* a side with both an onError callback and an errorResponse was answered by
\* the callback
C25_Witness ==
  /\ last.op = "onValidationError"
  /\ Truthy(Prop(ConfiguredSide, "onError"))
  /\ Truthy(Prop(ConfiguredSide, "errorResponse"))
  /\ last.outcome.kind = "onError"

-----------------------------------------------------------------------------
(* The registry listed: route() calls in turn and printRoutes().           *)

\* the route(path, methods, options) calls of a service that lists its routes
ListingCalls ==
  { [path |-> PathA, methods |-> [m \in {"get"} |-> OpPlain], options |-> Undefined],
    [path |-> PathA2, methods |-> [m \in {"post"} |-> OpShown], options |-> Undefined],
    [path |-> PathB, methods |-> [m \in {"get"} |-> OpHidden], options |-> Undefined],
    [path |-> PathB, methods |-> [m \in {"get"} |-> OpPlain],
     options |-> Obj([prefix |-> Str(<<"/", "p">>)])] }

MaxListedCalls == 3

\* a call of route(path, methods, options)
RouteInTurn ==
  /\ Len(calls) < MaxListedCalls
  /\ \E c \in ListingCalls :
       /\ routes' = route(routes, c.path, c.methods, c.options, options)
       /\ calls' = Append(calls, c)
       /\ last' = [op |-> "route"]
  /\ UNCHANGED <<options, document, app, input>>

\* a call of printRoutes()
PrintRoutes ==
  /\ \E printed \in {printRoutes(document, routes, options)} :
       /\ last' = [op |-> "printRoutes", title |-> printed.title, routes |-> printed.routes]
       /\ document' = printed.document
  /\ UNCHANGED <<options, routes, calls, app, input>>

NextListing == RouteInTurn \/ PrintRoutes

SpecListing == Init /\ [][NextListing]_vars

\* the first call made for the final path p
FirstCallFor(p) == CHOOSE k \in CallsFor(p) : \A j \in CallsFor(p) : k <= j

\* the final paths in the order in which each was first registered
InOrderOfFirstRegistration(paths) ==
  /\ \A i, j \in 1..Len(paths) :
       i < j => /\ CallsFor(paths[i]) # {} /\ CallsFor(paths[j]) # {}
                /\ FirstCallFor(paths[i]) < FirstCallFor(paths[j])
  /\ \A k \in 1..Len(calls) : \E i \in 1..Len(paths) : paths[i] = FinalPath(calls[k])

\* C26: the Routes the specification getter iterates and printRoutes lists are
\* in the order in which each final path was first registered; registering a
\* final path again neither moves nor duplicates its Route.
C26_RoutesInOrderOfFirstRegistration ==
  /\ InOrderOfFirstRegistration([i \in 1..Len(routes) |-> routes[i].path])
  /\ last.op = "printRoutes" =>
       /\ Len(last.routes) = Len(routes)
       /\ InOrderOfFirstRegistration([i \in 1..Len(last.routes) |-> last.routes[i].path])

\* printRoutes listed two Routes after the first final path was registered, a
\* second one was registered, and the first was registered again
C26_Witness ==
  /\ last.op = "printRoutes"
  /\ Len(last.routes) = 2
  /\ Len(calls) = 3
  /\ FinalPath(calls[1]) = FinalPath(calls[3])
  /\ FinalPath(calls[1]) # FinalPath(calls[2])
  /\ last.routes[1].path = FinalPath(calls[1])

-----------------------------------------------------------------------------
(* Claims about the options of a Route registered again.                   *)

\* the latest call made for the final path p
LatestCallFor(p) == CHOOSE k \in CallsFor(p) : \A j \in CallsFor(p) : j <= k

\* the options of every Route are those of the latest call for its path
OptionsAreTheLatest ==
  \A i \in 1..Len(routes) :
    routes[i].options = calls[LatestCallFor(routes[i].path)].options

\* C27: after route() for a final path that exists, the Route's options are
\* exactly those of the latest call (absent when it passed none), and the
\* options of earlier calls have no effect on exclusion any more: a read after
\* a latest call whose options exclude the route shows none of its operations
\* beyond what the static document was constructed with.
C27_LatestOptionsWin ==
  /\ OptionsAreTheLatest
  /\ last.op = "specification" =>
       \A i \in 1..Len(routes) : \A m \in DOMAIN routes[i].methods :
         (/\ Prop(calls[LatestCallFor(routes[i].path)].options,
                  "excludeFromSpecification") = Bool(TRUE)
          /\ ~Visible(routes[i], m))
           => Listed(routes[i], m) =
                At(ConstructedDocument,
                   <<"paths", replacePathWithOpenApiParams(routes[i].path), m>>)

-----------------------------------------------------------------------------
(* Requests handled concurrently.  The host runs preValidation, the        *)
(* handler and preSerialization of a request as separate steps, and steps  *)
(* of different requests interleave; the body of a hook has no await, so   *)
(* it runs as one step.  The schema engine (this.ajv) is shared: it keeps  *)
(* the validators it compiled, and each validator keeps the errors of its  *)
(* latest call (validate.errors).                                          *)

\* the engine as constructed: nothing compiled
NoEngine == [s \in {} |-> Null]

\* the engine after the validator of a schema was compiled and called
engineAfter(engine, schema, errors) ==
  [s \in DOMAIN engine \cup {schema} |-> IF s = schema THEN errors ELSE engine[s]]

\* a pre-validation hook that validates by content type and takes
\* validate.errors as the engine holds them before its own call of validate
preValidationStaleErrors(engine, rs, routerOpts, request) ==
  LET described == describeOperation(rs, routerOpts, request)
      reqBodySpec == getRequestBodySchema(Str(<<ApplicationJson>>),
                                          described.operation.specification)
      reaches == /\ described.method # "get" /\ Truthy(request.body) /\ described.found
                 /\ At(described.options, <<"autoValidate", "request", "validate">>) = Bool(TRUE)
                 /\ ~reqBodySpec.threw /\ Truthy(reqBodySpec.result)
                 /\ compiles(reqBodySpec.result)
      stale == IF reaches /\ reqBodySpec.result \in DOMAIN engine
                 THEN engine[reqBodySpec.result] ELSE Null
      checked == validate(reqBodySpec.result, request.body, allErrors(routerOpts))
      response == errorResponse("request", routerOpts, stale)
  IN [outcome |-> IF reaches /\ ~IsNull(stale) /\ response.kind = "send" THEN response
                  ELSE Pass,
      engine |-> IF reaches THEN engineAfter(engine, reqBodySpec.result, checked.errors)
                 ELSE engine]

\* hooks.preValidation with the engine, router.ts:381-410: the outcome, and
\* the engine after `this.ajv.compile(reqBodySpec)` and `validate(payload)`
\* (lines 394-396) when the hook gets there
preValidationIn(engine, rs, routerOpts, request) ==
  CHOOSE did \in
    UNION { { [outcome |-> preValidation(rs, routerOpts, request),
               engine |->
                 IF /\ described.method # "get" /\ described.path # <<>>
                    /\ Truthy(request.body) /\ described.found
                    /\ At(described.options, <<"autoValidate", "request", "validate">>)
                         = Bool(TRUE)
                    /\ ~reqBodySpec.threw /\ Truthy(reqBodySpec.result)
                    /\ compiles(reqBodySpec.result)
                   THEN engineAfter(engine, reqBodySpec.result,
                                    validate(reqBodySpec.result, request.body,
                                             allErrors(routerOpts)).errors)
                   ELSE engine] :
              reqBodySpec \in {getRequestBodySchema(described.operation.specification,
                                                    Undefined)} } :
            described \in {describeOperation(rs, routerOpts, request)} } : TRUE

\* hooks.preSerialization with the engine, router.ts:412-432: the outcome, and
\* the engine after lines 420-422 when the hook gets there
preSerializationIn(engine, rs, routerOpts, request, reply, payload) ==
  CHOOSE did \in
    UNION { { [outcome |-> preSerialization(rs, routerOpts, request, reply, payload),
               engine |->
                 IF /\ Truthy(payload) /\ described.found
                    /\ ~resBodySpec.threw /\ Truthy(resBodySpec.result)
                    /\ compiles(resBodySpec.result)
                   THEN engineAfter(engine, resBodySpec.result,
                                    validate(resBodySpec.result, payload,
                                             allErrors(routerOpts)).errors)
                   ELSE engine] :
              resBodySpec \in {getResponseSchema(described.operation.specification,
                                                 reply, Undefined)} } :
            described \in {describeOperation(rs, routerOpts, request)} } : TRUE

\* what the host sends for a request, from the outcomes of its two hooks and
\* the handler's answer
sentFor(pre, post, answer) ==
  IF pre.kind = "throw" THEN HostError
  ELSE IF pre.kind = "send" THEN [status |-> pre.status, payload |-> pre.payload]
  ELSE IF post.kind = "send" THEN [status |-> post.status, payload |-> post.payload]
  ELSE IF post.kind = "throw" THEN HostError
  ELSE answer

\* the routers, route() calls, bodies and answers of the concurrent requests
ConcurrentConstructions ==
  { [options |-> Obj([autoValidate |-> Bool(TRUE)]), document |-> DocBare],
    [options |-> Obj([autoValidate |-> ServiceValidation]), document |-> DocWithPaths] }

ConcurrentRouteCalls ==
  { [path |-> PathA2, methods |-> [m \in {"post"} |-> OpPlain],
     options |-> RouteValidation],
    [path |-> PathB, methods |-> [m \in {"post"} |-> OpChecked], options |-> Undefined] }

ConcurrentBodies == {Obj([id |-> Num(1)]), Obj([name |-> Str(<<"x">>)])}

ConcurrentReplies ==
  { [status |-> Num(200), payload |-> Obj([id |-> Num(1)])],
    [status |-> Num(200), payload |-> Obj([name |-> Str(<<"x">>)])] }

MaxInFlight == 2

\* the engine as the latest step left it
Engine == IF "engine" \in DOMAIN last THEN last.engine ELSE NoEngine

\* new OpenApiRouter(app, document, options), router.ts:56-61
InitConcurrent ==
  /\ \E c \in ConcurrentConstructions : options = c.options /\ document = c.document
  /\ routes = <<>>
  /\ calls = <<>>
  /\ app = NoApp
  /\ input = <<>>
  /\ last = [op |-> "none"]

\* the start-up code: route() and initialize()
StartUp ==
  /\ ~app.initialized
  /\ \E c \in ConcurrentRouteCalls :
       \E rs \in {route(routes, c.path, c.methods, c.options, options)} :
         /\ routes' = rs
         /\ calls' = Append(calls, c)
         /\ app' = initialize(rs, options)
  /\ last' = [op |-> "initialize", engine |-> NoEngine]
  /\ UNCHANGED <<options, document, input>>

\* the host receives a request that matches a registered handler
Receive ==
  /\ app.initialized
  /\ Len(input) < MaxInFlight
  /\ \E h \in app.handlers, body \in ConcurrentBodies :
       input' = Append(input, [pc |-> "received",
                               request |-> [method |-> h.method, url |-> h.path,
                                            body |-> body],
                               pre |-> Pass, answer |-> [status |-> Null, payload |-> Null],
                               sent |-> [status |-> Null, payload |-> Null]])
  /\ last' = [op |-> "receive", engine |-> Engine]
  /\ UNCHANGED <<options, document, routes, calls, app>>

\* the preValidation hook of one request in flight
RunPreValidation ==
  /\ \E k \in 1..Len(input) :
       /\ input[k].pc = "received"
       /\ \E did \in {IF app.preValidation
                        THEN preValidationIn(Engine, routes, options, input[k].request)
                        ELSE [outcome |-> Pass, engine |-> Engine]} :
            /\ input' = [input EXCEPT ![k].pre = did.outcome,
                                      ![k].pc = IF did.outcome.kind = "pass" THEN "validated"
                                                ELSE "done",
                                      ![k].sent = sentFor(did.outcome, Pass, input[k].answer)]
            /\ last' = [op |-> "preValidation", engine |-> did.engine]
  /\ UNCHANGED <<options, document, routes, calls, app>>

\* the handler of one request in flight
RunHandler ==
  /\ \E k \in 1..Len(input), answer \in ConcurrentReplies :
       /\ input[k].pc = "validated"
       /\ input' = [input EXCEPT ![k].answer = answer, ![k].pc = "answered"]
  /\ last' = [op |-> "handler", engine |-> Engine]
  /\ UNCHANGED <<options, document, routes, calls, app>>

\* the preSerialization hook of one request in flight
RunPreSerialization ==
  /\ \E k \in 1..Len(input) :
       /\ input[k].pc = "answered"
       /\ \E did \in {IF app.preSerialization
                        THEN preSerializationIn(Engine, routes, options, input[k].request,
                                                Obj([statusCode |-> input[k].answer.status]),
                                                input[k].answer.payload)
                        ELSE [outcome |-> Pass, engine |-> Engine]} :
            /\ input' = [input EXCEPT ![k].pc = "done",
                                      ![k].sent = sentFor(input[k].pre, did.outcome,
                                                          input[k].answer)]
            /\ last' = [op |-> "preSerialization", engine |-> did.engine]
  /\ UNCHANGED <<options, document, routes, calls, app>>

NextConcurrent ==
  StartUp \/ Receive \/ RunPreValidation \/ RunHandler \/ RunPreSerialization

SpecConcurrent == InitConcurrent /\ [][NextConcurrent]_vars

\* what the host sends for a request handled alone, with an engine that has
\* compiled nothing yet
sentAlone(request, answer) ==
  CHOOSE sent \in
    { sentFor(pre.outcome,
              IF pre.outcome.kind = "pass" /\ app.preSerialization
                THEN preSerializationIn(pre.engine, routes, options, request,
                                        Obj([statusCode |-> answer.status]),
                                        answer.payload).outcome
                ELSE Pass,
              answer) :
        pre \in {IF app.preValidation
                   THEN preValidationIn(NoEngine, routes, options, request)
                   ELSE [outcome |-> Pass, engine |-> NoEngine]} } : TRUE

-----------------------------------------------------------------------------
(* Claims about the coercion of declared parameters.                       *)

\* a string that writes a number: a signed decimal numeral, spaces around it
\* allowed
IsNumeral(s) ==
  LET t == trim(s)
      digits == IF t # <<>> /\ t[1] \in {"-", "+"} THEN Tail(t) ELSE t
  IN digits # <<>> /\ \A i \in 1..Len(digits) : digits[i] \in Digits

\* the number a numeral writes
NumeralValue(s) ==
  LET t == trim(s)
  IN IF t[1] = "-" THEN 0 - decimal(Tail(t))
     ELSE IF t[1] = "+" THEN decimal(Tail(t))
     ELSE decimal(t)

\* the declared type of `limit` in a section of the request, "none" when the
\* section has no declaration of it
DeclaredType(section) ==
  LET declared == {d \in {Map(Prop(input.specification, "parameters"))[i] :
                            i \in DOMAIN Map(Prop(input.specification, "parameters"))} :
                     ~Nullish(d) /\ sectionOf(d) = section}
  IN IF declared = {} THEN Undefined
     ELSE At(CHOOSE d \in declared : TRUE, <<"schema", "type">>)

\* C29: parseOperationParameters replaces a declared integer or number
\* parameter that is present by its numeric value, or by undefined when it is
\* not numeric; a declared boolean parameter given as a string by true exactly
\* when it is "true"; and leaves values declared with other types, undeclared
\* values and absent parameters unchanged.
C29_DeclaredParametersAreCoerced ==
  (/\ last.op = "parseOperationParameters"
   /\ \A k \in {"query", "params", "headers"} : IsObj(Prop(input.request, k))
   /\ \A i \in DOMAIN Map(Prop(input.specification, "parameters")) :
        ~Nullish(Map(Prop(input.specification, "parameters"))[i])) =>
    \A k \in {"query", "params", "headers"} :
      LET given == Prop(input.request, k)
          got == Prop(last.result, k)
          value == Prop(given, "limit")
          type == DeclaredType(k)
      IN /\ Prop(got, "other") = Prop(given, "other")
         /\ IsUndefined(value) => IsUndefined(Prop(got, "limit"))
         /\ (IsStr(value) /\ type \in {Str(<<"integer">>), Str(<<"number">>)}) =>
              Prop(got, "limit") = (IF IsNumeral(value.str) THEN Num(NumeralValue(value.str))
                                    ELSE Undefined)
         /\ (IsStr(value) /\ type = Str(<<"boolean">>)) =>
              Prop(got, "limit") = Bool(value.str = <<"t", "r", "u", "e">>)
         /\ type \notin {Str(<<"integer">>), Str(<<"number">>), Str(<<"boolean">>)} =>
              Prop(got, "limit") = value

-----------------------------------------------------------------------------
(* Claims about the default operation options.                             *)

\* C30: getDefaultOperationOptions resolves autoValidate.request.validate and
\* autoValidate.response.validate each as the operator's value when the
\* operator sets one, else the route's, else the service's, else false; an
\* operator that sets no autoValidate falls through to the route or service.
C30_DefaultValidateByPrecedence ==
  last.op = "getDefaultOperationOptions" =>
    \A side \in {"request", "response"} :
      At(last.result, <<"autoValidate", side, "validate">>) =
        Coalesce(ByPrecedence(input, <<"autoValidate", side, "validate">>), Bool(FALSE))
=============================================================================
